---- MODULE Spec2Model ----
(***************************************************************************)
(* A model of the NYC 311 analytics agent (src/backend): the LangGraph     *)
(* workflow of agent_graph.py (input, generate_sql, validate_sql,          *)
(* repair_sql, execute_sql, generate_answer, output), run_agent around it  *)
(* and the /chat handler of main.py around that.                           *)
(*                                                                         *)
(* Conventions.                                                            *)
(*  - A Python str that the validator inspects (a SQL text) is a sequence  *)
(*    of one-character strings; messages that are only built and compared  *)
(*    (sql_error, final_answer, exception details) are TLA+ strings.       *)
(*  - An optional value is a sequence of length at most one: None is <<>>  *)
(*    and a present value v is <<v>>.                                      *)
(***************************************************************************)
EXTENDS Integers, Sequences, FiniteSets, TLC

VARIABLES
    pc,        \* where the request is: the next node of the graph, or a terminal place
    state,     \* the Context dict threaded through the graph (agent_graph.py:506-517)
    hist,      \* history: nodes entered, backend calls, run_query calls, raises
    result,    \* what run_agent returned to its caller (None until it returns)
    chat,      \* outcome of the /chat handler: "pending", "response" or "raised"
    probe      \* input/output cell of the pure-function specifications

vars == <<pc, state, hist, result, chat, probe>>

----------------------------------------------------------------------------
(* Optional values and Python truthiness.                                  *)

None == <<>>

Some(v) == <<v>>

IsNone(o) == o = <<>>

\* bool(o) for o None or a str: None and the empty string are falsy.
Truthy(o) == o # <<>> /\ Len(o[1]) > 0

----------------------------------------------------------------------------
(* Characters.                                                             *)

LowerLetters ==
    <<"a","b","c","d","e","f","g","h","i","j","k","l","m",
      "n","o","p","q","r","s","t","u","v","w","x","y","z">>

UpperLetters ==
    <<"A","B","C","D","E","F","G","H","I","J","K","L","M",
      "N","O","P","Q","R","S","T","U","V","W","X","Y","Z">>

Digits == <<"0","1","2","3","4","5","6","7","8","9">>

Range(f) == {f[i] : i \in DOMAIN f}

SpaceChars == {" ", "\t", "\n", "\r"}

DigitChars == Range(Digits)

WordChars == Range(LowerLetters) \cup Range(UpperLetters) \cup Range(Digits) \cup {"_"}

\* str.upper() and str.lower() on one letter.
UpperOf == [c \in Range(LowerLetters) |->
               UpperLetters[CHOOSE i \in DOMAIN LowerLetters : LowerLetters[i] = c]]

LowerOf == [c \in Range(UpperLetters) |->
               LowerLetters[CHOOSE i \in DOMAIN UpperLetters : UpperLetters[i] = c]]

\* str.isspace for the characters of the model (Python's strip() and the regex \s).
IsSpace(c) == c \in SpaceChars

\* The regex class \w: letters, digits and underscore.
IsWordChar(c) == c \in WordChars

UpperChar(c) == IF c \in DOMAIN UpperOf THEN UpperOf[c] ELSE c

LowerChar(c) == IF c \in DOMAIN LowerOf THEN LowerOf[c] ELSE c

DigitValue(c) == (CHOOSE i \in DOMAIN Digits : Digits[i] = c) - 1

----------------------------------------------------------------------------
(* str methods used by the validator, on character sequences.              *)

\* s.upper()
Upper(s) == [i \in DOMAIN s |-> UpperChar(s[i])]

\* s.lower()
Lower(s) == [i \in DOMAIN s |-> LowerChar(s[i])]

\* s[a..b] (1-based, inclusive); empty when a > b.
Slice(s, a, b) == SubSeq(s, a, b)

\* s.strip(): leading and trailing whitespace removed.
Strip(s) ==
    IF \A i \in DOMAIN s : IsSpace(s[i]) THEN <<>>
    ELSE LET first == CHOOSE i \in DOMAIN s :
                          ~IsSpace(s[i]) /\ \A j \in 1..(i-1) : IsSpace(s[j])
             last  == CHOOSE i \in DOMAIN s :
                          ~IsSpace(s[i]) /\ \A j \in (i+1)..Len(s) : IsSpace(s[j])
         IN  Slice(s, first, last)

\* s.rstrip(';'): every trailing ';' removed (and nothing else).
RStripSemicolon(s) ==
    IF \A i \in DOMAIN s : s[i] = ";" THEN <<>>
    ELSE LET last == CHOOSE i \in DOMAIN s :
                          s[i] # ";" /\ \A j \in (i+1)..Len(s) : s[j] = ";"
         IN  Slice(s, 1, last)

\* s.startswith(p)
StartsWith(s, p) == Len(s) >= Len(p) /\ Slice(s, 1, Len(p)) = p

\* The characters of s joined into one message string.
RECURSIVE Str(_)
Str(s) == IF s = <<>> THEN "" ELSE s[1] \o Str(Tail(s))

\* int(digits) for a non-empty run of decimal digits.
RECURSIVE ParseInt(_)
ParseInt(d) ==
    IF d = <<>> THEN 0 ELSE ParseInt(Slice(d, 1, Len(d) - 1)) * 10 + DigitValue(d[Len(d)])

----------------------------------------------------------------------------
(* Literals of the validator.                                              *)

KW_FROM == <<"F","R","O","M">>

KW_JOIN == <<"J","O","I","N">>

KW_WITH == <<"W","I","T","H">>

KW_LIMIT == <<"L","I","M","I","T">>

KW_SELECT == <<"S","E","L","E","C","T">>

\* forbidden_keywords, in the order the validator tries them.
forbidden_keywords ==
    <<<<"I","N","S","E","R","T">>,
      <<"U","P","D","A","T","E">>,
      <<"D","E","L","E","T","E">>,
      <<"D","R","O","P">>,
      <<"A","L","T","E","R">>,
      <<"A","T","T","A","C","H">>,
      <<"P","R","A","G","M","A">>,
      <<"C","R","E","A","T","E">>,
      <<"T","R","U","N","C","A","T","E">>,
      <<"C","O","P","Y">>,
      <<"A","N","A","L","Y","Z","E">>,
      <<"E","X","E","C","U","T","E">>,
      <<"E","X","E","C">>,
      <<"C","A","L","L">>,
      <<"M","E","R","G","E">>,
      <<"R","E","P","L","A","C","E">>>>

\* The base relation, lower case, as the validator compares it.
BASE_TABLE == <<"n","y","c","_","3","1","1">>

\* The text auto-appended to a query without a LIMIT clause.
LIMIT_SUFFIX == <<" ","L","I","M","I","T"," ","1","0","0","0">>

\* The literal members of valid_tables.
VALID_TABLE_LITERALS == {<<"n","y","c","_","3","1","1">>, <<"N","Y","C","_","3","1","1">>, <<"N","y","c","_","3","1","1">>}

----------------------------------------------------------------------------
(* The regular expressions of the validator (Python re, ASCII subject).    *)

\* Whether position j of s holds a \w character (positions outside s do not).
WordCharAt(s, j) == j \in DOMAIN s /\ IsWordChar(s[j])

\* The assertion \b in the gap before s[i], for i in 1..Len(s)+1.
WordBoundary(s, i) == WordCharAt(s, i - 1) # WordCharAt(s, i)

\* Whether the literal w occurs in s starting at position i.
LiteralAt(s, i, w) == i >= 1 /\ i + Len(w) - 1 <= Len(s) /\ Slice(s, i, i + Len(w) - 1) = w

\* Mutant of SearchWholeWord: the pattern without the two \b assertions.
SearchWholeWord_Substring(s, kw) == \E i \in 1..Len(s) : LiteralAt(s, i, kw)

\* re.search(r'\b' + kw + r'\b', s) finds a match.
SearchWholeWord(s, kw) ==
    \E i \in 1..Len(s) :
        WordBoundary(s, i) /\ LiteralAt(s, i, kw) /\ WordBoundary(s, i + Len(kw))

\* The last index of the greedy run of characters of the class cls that starts
\* at position j (j - 1 when the run is empty).
RunEnd(s, j, cls) ==
    IF \A k \in j..Len(s) : s[k] \in cls THEN Len(s)
    ELSE (CHOOSE k \in j..Len(s) : s[k] \notin cls /\ \A m \in j..(k-1) : s[m] \in cls) - 1

\* The span <<first, last>> of a non-empty captured group, <<>> for an empty one.
GroupSpan(first, last) == IF last >= first THEN <<first, last>> ELSE <<>>

\* \s+(cls+) from position wsFirst, the greedy \s run ending at wsLast.
SpacesThenGroup(s, wsFirst, wsLast, cls) ==
    IF wsLast >= wsFirst THEN GroupSpan(wsLast + 1, RunEnd(s, wsLast + 1, cls)) ELSE <<>>

\* A match of \bkw\s+(cls+) anchored at position i, for cls the class \w or \d:
\* the span of the captured group, or <<>> when there is no match at i.  (\s+
\* and cls+ are greedy and never need to give characters back: a \s is never a
\* \w or \d character.)
KeywordArgAt(s, i, kw, cls) ==
    IF ~(WordBoundary(s, i) /\ LiteralAt(s, i, kw)) THEN <<>>
    ELSE SpacesThenGroup(s, i + Len(kw), RunEnd(s, i + Len(kw), SpaceChars), cls)

\* re.findall(r'\bkw\s+(\w+)\b', s) scanning from position i: the captured
\* identifiers of the non-overlapping matches, left to right; m is the match
\* anchored at i.  (The trailing \b always holds after a greedy \w+, so the
\* pattern without it finds the same.)
RECURSIVE FindAllFrom(_, _, _)
RECURSIVE FindAllStep(_, _, _, _)
FindAllStep(s, kw, i, m) ==
    IF m = <<>> THEN FindAllFrom(s, kw, i + 1)
    ELSE <<Slice(s, m[1], m[2])>> \o FindAllFrom(s, kw, m[2] + 1)

FindAllFrom(s, kw, i) ==
    IF i > Len(s) THEN <<>> ELSE FindAllStep(s, kw, i, KeywordArgAt(s, i, kw, WordChars))

FindAll(s, kw) == FindAllFrom(s, kw, 1)

\* The leftmost of the group spans of a set of matches, as an optional value.
LeftmostSpan(spans) ==
    IF spans = {} THEN None
    ELSE Some(CHOOSE m \in spans : \A g \in spans : m[1] <= g[1])

\* The text of an optional span of s.
SpanText(s, span) == IF IsNone(span) THEN None ELSE Some(Slice(s, span[1][1], span[1][2]))

\* re.search(r'\bLIMIT\s+(\d+)', s): the digits captured by the leftmost match,
\* as an optional value.
SearchLimit(s) ==
    SpanText(s, LeftmostSpan({KeywordArgAt(s, i, KW_LIMIT, DigitChars) : i \in 1..Len(s)} \ {<<>>}))

----------------------------------------------------------------------------
(* The workflow record and the result of running a node.                   *)

\* The context dict run_agent creates.  sql_confidence is a key the dict gets
\* only in the generation node; an absent key reads as None here.
NewContext(question, schema) ==
    [user_question   |-> question,
     schema          |-> schema,
     deepseek_sql    |-> None,
     sql_explanation |-> None,
     sql_confidence  |-> None,
     validated_sql   |-> None,
     sql_error       |-> None,
     result_rows     |-> <<>>,
     result_columns  |-> <<>>,
     final_answer    |-> None,
     repair_count    |-> 0]

\* A node that returned the dict st without an outbound call.
Returned(st) == [raised |-> FALSE, exc |-> "", st |-> st, calls |-> <<>>]

\* A node that returned the dict st after the one outbound call c.
ReturnedAfter(st, c) == [raised |-> FALSE, exc |-> "", st |-> st, calls |-> <<c>>]

\* A node that raised the exception whose str() is exc, leaving the dict as st.
Raised(st, exc) == [raised |-> TRUE, exc |-> exc, st |-> st, calls |-> <<>>]

\* History events: a node entered, an outbound call with its argument and
\* outcome, an exception leaving a node.
NodeEvent(name) == [ev |-> "node", name |-> name, arg |-> <<>>, out |-> <<>>]

BackendCall(name, arg, resp) == [ev |-> "backend", name |-> name, arg |-> arg, out |-> resp]

RunQueryCall(sql, outcome) == [ev |-> "run_query", name |-> "run_query", arg |-> sql, out |-> outcome]

RaiseEvent(name, exc) == [ev |-> "raise", name |-> name, arg |-> <<>>, out |-> exc]

\* A backend call that was issued and has not returned: the node is suspended at
\* its "await call_deepseek_json(...)".
AwaitEvent(name, arg) == [ev |-> "await", name |-> name, arg |-> arg, out |-> <<>>]

----------------------------------------------------------------------------
(* The parsed payload of a backend response: a JSON object whose fields    *)
(* may be missing, null or a value.                                        *)

Missing == <<>>

JsonNull == <<None>>

JsonValue(v) == <<Some(v)>>

\* dict.get(key, default) on a field: the default only when the key is missing.
DictGet(field, default) == IF field = Missing THEN Some(default) ELSE field[1]

\* str(e) of the TypeError of None[:200].
NOT_SUBSCRIPTABLE == "'NoneType' object is not subscriptable"

\* Mutant of MAX_REPAIR_ATTEMPTS: a budget of three repairs.
MAX_REPAIR_ATTEMPTS_Three == 2 + 1

\* MAX_REPAIR_ATTEMPTS
MAX_REPAIR_ATTEMPTS == 2

\* The largest LIMIT value the validator accepts.
MAX_LIMIT == 1000

----------------------------------------------------------------------------
(* sql_validation_node.  Each check is an operator giving the error the    *)
(* node records when the check fails (None when it passes); the node       *)
(* records the error of the first failing check, in the order of the code. *)

\* sql.upper().strip()
SqlUpper(sql) == Strip(Upper(sql))

\* if not sql or not sql.strip()
EmptyError(sql) ==
    IF sql = <<>> \/ Strip(sql) = <<>> THEN Some("SQL query is empty") ELSE None

\* Mutant of FormError: only SELECT is an allowed statement form.
FormError_SelectOnly(sqlUpper) ==
    IF ~StartsWith(sqlUpper, KW_SELECT)
    THEN Some("SQL must start with SELECT or WITH") ELSE None

\* if not (sql_upper.startswith("SELECT") or sql_upper.startswith("WITH"))
FormError(sqlUpper) ==
    IF ~(StartsWith(sqlUpper, KW_SELECT) \/ StartsWith(sqlUpper, KW_WITH))
    THEN Some("SQL must start with SELECT or WITH") ELSE None

\* The first forbidden keyword, in list order from index k on, that occurs in
\* sqlUpper as a whole word; None when none does.
RECURSIVE FirstForbidden(_, _)
FirstForbidden(sqlUpper, k) ==
    IF k > Len(forbidden_keywords) THEN None
    ELSE IF SearchWholeWord(sqlUpper, forbidden_keywords[k]) THEN Some(forbidden_keywords[k])
    ELSE FirstForbidden(sqlUpper, k + 1)

ForbiddenMessage(keyword) ==
    IF IsNone(keyword) THEN None ELSE Some("Forbidden keyword found: " \o Str(keyword[1]))

\* for keyword in forbidden_keywords: ...
ForbiddenError(sqlUpper) == ForbiddenMessage(FirstForbidden(sqlUpper, 1))

\* table_refs: the identifiers after FROM, then those after JOIN.
TableRefs(sqlUpper) == FindAll(sqlUpper, KW_FROM) \o FindAll(sqlUpper, KW_JOIN)

\* valid_tables: the three literals and the identifier after each WITH.
ValidTables(sqlUpper) == VALID_TABLE_LITERALS \cup Range(FindAll(sqlUpper, KW_WITH))

\* The indices of the table references that are neither nyc_311 (compared in
\* lower case) nor a member of valid_tables.
InvalidRefs(refs, valid) ==
    {i \in DOMAIN refs : Lower(refs[i]) # BASE_TABLE /\ refs[i] \notin valid}

\* The first table reference the loop rejects; None when it rejects none.
FirstInvalid(refs, bad) ==
    IF bad = {} THEN None ELSE Some(refs[CHOOSE i \in bad : \A j \in bad : i <= j])

TableMessage(ref) ==
    IF IsNone(ref) THEN None
    ELSE Some("Invalid table reference: " \o Str(ref[1]) \o ". Only 'nyc_311' and CTEs are allowed.")

FirstInvalidTable(refs, valid) == FirstInvalid(refs, InvalidRefs(refs, valid))

\* for table_ref in table_refs: ...
TableError(sqlUpper) == TableMessage(FirstInvalidTable(TableRefs(sqlUpper), ValidTables(sqlUpper)))

\* if limit_value > 1000
LimitValueError(n) ==
    IF n > MAX_LIMIT
    THEN Some("LIMIT value " \o ToString(n) \o " exceeds maximum of " \o ToString(MAX_LIMIT))
    ELSE None

LimitMessage(limit) == IF IsNone(limit) THEN None ELSE LimitValueError(ParseInt(limit[1]))

\* limit_match = re.search(...); if limit_match: ...
LimitError(sqlUpper) == LimitMessage(SearchLimit(sqlUpper))

\* The first error of a sequence of check results; None when every check passed.
FirstSome(errs) ==
    IF \A i \in DOMAIN errs : IsNone(errs[i]) THEN None
    ELSE errs[CHOOSE i \in DOMAIN errs : ~IsNone(errs[i]) /\ \A j \in 1..(i-1) : IsNone(errs[j])]

\* Mutant of ValidationChecks: the forbidden-keyword scan runs before the
\* statement-form check.
ValidationChecks_KeywordsFirst(sql, sqlUpper) ==
    <<EmptyError(sql), ForbiddenError(sqlUpper), FormError(sqlUpper),
      TableError(sqlUpper), LimitError(sqlUpper)>>

\* Mutant of ValidationChecks: the LIMIT value is checked before the table
\* references.
ValidationChecks_LimitBeforeTable(sql, sqlUpper) ==
    <<EmptyError(sql), FormError(sqlUpper), ForbiddenError(sqlUpper),
      LimitError(sqlUpper), TableError(sqlUpper)>>

\* The checks in the order the node applies them, each terminal on failure.
ValidationChecks(sql, sqlUpper) ==
    <<EmptyError(sql), FormError(sqlUpper), ForbiddenError(sqlUpper),
      TableError(sqlUpper), LimitError(sqlUpper)>>

\* The error the node records for the candidate sql; None when it accepts it.
ValidationError(sql) == FirstSome(ValidationChecks(sql, SqlUpper(sql)))

\* sql.rstrip(';').strip() + " LIMIT 1000" when limit (the LIMIT clause found in
\* sql_upper) is None, and sql itself otherwise.
NormalizeLimit(sql, limit) ==
    IF IsNone(limit) THEN Strip(RStripSemicolon(sql)) \o LIMIT_SUFFIX ELSE sql

\* The text the node leaves in deepseek_sql and validated_sql when it accepts.
NormalizedSql(sql) == NormalizeLimit(sql, SearchLimit(SqlUpper(sql)))

\* The dict after the two fields are cleared (lines 119-120).
ClearValidation(s) == [s EXCEPT !.sql_error = None, !.validated_sql = None]

\* Mutant of ValidationOutcome: a failing check records its error without
\* returning, so the candidate still becomes validated_sql.
ValidationOutcome_NoReturnOnError(cleared, err, normalized) ==
    IF ~IsNone(err)
    THEN Returned([cleared EXCEPT !.sql_error = err, !.validated_sql = Some(normalized)])
    ELSE Returned([cleared EXCEPT !.deepseek_sql = Some(normalized),
                                  !.validated_sql = Some(normalized)])

\* Mutant of ValidationOutcome: a failing check returns without recording its
\* error, so the pass leaves neither field set.
ValidationOutcome_ErrorDropped(cleared, err, normalized) ==
    IF ~IsNone(err)
    THEN Returned(cleared)
    ELSE Returned([cleared EXCEPT !.deepseek_sql = Some(normalized),
                                  !.validated_sql = Some(normalized)])

\* The dict the node returns, given the error of the first failing check and the
\* normalized text.  A rejected candidate is left as it was: the LIMIT
\* normalization runs after the table check, and a LIMIT error needs a LIMIT
\* clause, which rules the normalization out.
ValidationOutcome(cleared, err, normalized) ==
    IF ~IsNone(err)
    THEN Returned([cleared EXCEPT !.sql_error = err])
    ELSE Returned([cleared EXCEPT !.deepseek_sql = Some(normalized),
                                  !.validated_sql = Some(normalized)])

\* The node on a dict whose candidate is the str sql.
ValidateCandidate(s, sql) ==
    ValidationOutcome(ClearValidation(s), ValidationError(sql), NormalizedSql(sql))

\* The node, on the dict s: the dict it leaves, or the exception it raises.
sql_validation_node(s) ==
    IF IsNone(s.deepseek_sql)
    THEN Raised(s, NOT_SUBSCRIPTABLE)                  \* line 116: sql[:200] with sql None
    ELSE ValidateCandidate(s, s.deepseek_sql[1])

----------------------------------------------------------------------------
(* The nodes that call the text-generation backend.  resp is the outcome   *)
(* of call_deepseek_json: [ok |-> TRUE, payload |-> ...] when it returned   *)
(* a parsed object, [ok |-> FALSE, detail |-> str(e)] when it raised.      *)

\* str(e) of format(None, '.2f').
BAD_FORMAT == "unsupported format string passed to NoneType.__format__"

\* input_node: run_agent always supplies "schema" and "repair_count", so both
\* "not in state" branches are skipped and the dict is returned as it is.
input_node(s) == Returned(s)

\* sql_generation_node.  The three assignments precede the log lines, which
\* raise inside the try block on a None sql, explanation or confidence.
sql_generation_node(s, resp) ==
    LET call == BackendCall("generate", s.user_question, resp)
        failed(st, detail) ==
            ReturnedAfter([st EXCEPT !.sql_error = Some("SQL generation failed: " \o detail),
                                     !.deepseek_sql = None], call)
    IN  IF ~resp.ok THEN failed(s, resp.detail)
        ELSE LET assigned == [s EXCEPT
                     !.deepseek_sql    = DictGet(resp.payload.sql, <<>>),
                     !.sql_explanation = DictGet(resp.payload.explanation, ""),
                     !.sql_confidence  = DictGet(resp.payload.confidence, 0)]
             IN  IF IsNone(assigned.deepseek_sql) THEN failed(assigned, NOT_SUBSCRIPTABLE)
                 ELSE IF IsNone(assigned.sql_explanation) THEN failed(assigned, NOT_SUBSCRIPTABLE)
                 ELSE IF IsNone(assigned.sql_confidence) THEN failed(assigned, BAD_FORMAT)
                 ELSE ReturnedAfter(assigned, call)

\* str(sql_error) inside an f-string: None prints as "None".
FormatOpt(o) == IF IsNone(o) THEN "None" ELSE o[1]

\* Mutant of NextRepairCount: a repair attempt costs two units of the budget.
NextRepairCount_Two(n) == n + 2

\* repair_count + 1
NextRepairCount(n) == n + 1

\* Whether sql_repair_node, entered with the dict s, reaches its backend call.
RepairCallsBackend(s) == ~IsNone(s.deepseek_sql) /\ s.repair_count < MAX_REPAIR_ATTEMPTS

\* Mutant of sql_repair_node_from_await: a failed call also drops the
\* candidate, as the except branch of the generation node does.
sql_repair_node_from_await_FailureDropsCandidate(c, resp) ==
    LET call == BackendCall("repair", <<c.deepseek_sql, c.sql_error>>, resp)
        failed(st, detail) ==
            ReturnedAfter([st EXCEPT !.sql_error = Some("SQL repair failed: " \o detail),
                                     !.deepseek_sql = None], call)
    IN  IF ~resp.ok THEN failed(c, resp.detail)
        ELSE LET assigned == [c EXCEPT
                     !.deepseek_sql    = DictGet(resp.payload.sql, <<>>),
                     !.sql_explanation = DictGet(resp.payload.explanation, ""),
                     !.sql_error       = None]
             IN  IF IsNone(assigned.deepseek_sql)
                 THEN failed(assigned, NOT_SUBSCRIPTABLE)
                 ELSE ReturnedAfter(assigned, call)

\* Mutant of sql_repair_node_from_await: a failed call gives the attempt back,
\* so only calls that returned are counted.
sql_repair_node_from_await_CountsOnSuccess(c, resp) ==
    LET call == BackendCall("repair", <<c.deepseek_sql, c.sql_error>>, resp)
        failed(st, detail) ==
            ReturnedAfter([st EXCEPT !.sql_error = Some("SQL repair failed: " \o detail),
                                     !.repair_count = c.repair_count - 1], call)
    IN  IF ~resp.ok THEN failed(c, resp.detail)
        ELSE LET assigned == [c EXCEPT
                     !.deepseek_sql    = DictGet(resp.payload.sql, <<>>),
                     !.sql_explanation = DictGet(resp.payload.explanation, ""),
                     !.sql_error       = None]
             IN  IF IsNone(assigned.deepseek_sql)
                 THEN failed(assigned, NOT_SUBSCRIPTABLE)
                 ELSE ReturnedAfter(assigned, call)

\* sql_repair_node up to its await (lines 200-254), for a dict on which it
\* reaches the call: the dict it holds while suspended has the attempt counted
\* (line 215) and the rejected candidate and its error still in place.
sql_repair_node_until_await(s) == [s EXCEPT !.repair_count = NextRepairCount(s.repair_count)]

\* sql_repair_node from its await on (lines 256-270), on the dict c it was
\* suspended with.
sql_repair_node_from_await(c, resp) ==
    LET call == BackendCall("repair", <<c.deepseek_sql, c.sql_error>>, resp)
        failed(st, detail) ==
            ReturnedAfter([st EXCEPT !.sql_error = Some("SQL repair failed: " \o detail)], call)
    IN  IF ~resp.ok THEN failed(c, resp.detail)
        ELSE LET assigned == [c EXCEPT
                     !.deepseek_sql    = DictGet(resp.payload.sql, <<>>),
                     !.sql_explanation = DictGet(resp.payload.explanation, ""),
                     !.sql_error       = None]
             IN  IF IsNone(assigned.deepseek_sql)
                 THEN failed(assigned, NOT_SUBSCRIPTABLE)   \* line 264, inside the try
                 ELSE ReturnedAfter(assigned, call)

\* sql_repair_node run to its end.
sql_repair_node(s, resp) ==
    IF IsNone(s.deepseek_sql)
    THEN Raised(s, NOT_SUBSCRIPTABLE)              \* line 207: previous_sql[:200]
    ELSE IF s.repair_count >= MAX_REPAIR_ATTEMPTS
    THEN Returned([s EXCEPT !.sql_error =
             Some("Maximum repair attempts (" \o ToString(MAX_REPAIR_ATTEMPTS)
                  \o ") reached. Last error: " \o FormatOpt(s.sql_error))])
    ELSE sql_repair_node_from_await(sql_repair_node_until_await(s), resp)

\* ', '.join(columns)
RECURSIVE JoinComma(_)
JoinComma(cols) ==
    IF cols = <<>> THEN ""
    ELSE IF Len(cols) = 1 THEN cols[1]
    ELSE cols[1] \o ", " \o JoinComma(Tail(cols))

\* Whether answer_generation_node, entered with the dict s, reaches its backend call.
AnswerCallsBackend(s) == ~Truthy(s.sql_error)

\* Mutant of FallbackAnswer: the message counts the columns, not the rows.
FallbackAnswer_CountsColumns(s, detail) ==
    IF s.result_rows # <<>>
    THEN "Query executed successfully and returned " \o ToString(Len(s.result_columns))
         \o " rows. Columns: " \o JoinComma(s.result_columns)
    ELSE "Query executed but returned no results. Error generating answer: " \o detail

\* The fallback answer of the except branch.
FallbackAnswer(s, detail) ==
    IF s.result_rows # <<>>
    THEN "Query executed successfully and returned " \o ToString(Len(s.result_rows))
         \o " rows. Columns: " \o JoinComma(s.result_columns)
    ELSE "Query executed but returned no results. Error generating answer: " \o detail

\* Mutant of answer_generation_node: the recorded error becomes the answer
\* without the "Error: " prefix.
answer_generation_node_NoPrefix(s, resp) ==
    IF Truthy(s.sql_error)
    THEN Returned([s EXCEPT !.final_answer = s.sql_error])
    ELSE LET call == BackendCall("answer", s.validated_sql, resp)
             fallback(detail) ==
                 ReturnedAfter([s EXCEPT !.final_answer = Some(FallbackAnswer(s, detail))], call)
         IN  IF ~resp.ok THEN fallback(resp.detail)
             ELSE LET answer == DictGet(resp.payload.answer, "Unable to generate answer.")
                  IN  IF IsNone(answer) THEN fallback(NOT_SUBSCRIPTABLE)
                      ELSE ReturnedAfter([s EXCEPT !.final_answer = answer], call)

\* answer_generation_node from its await on (lines 365-380), on the dict s it
\* was suspended with.
answer_generation_node_from_await(s, resp) ==
    LET call == BackendCall("answer", s.validated_sql, resp)
        fallback(detail) ==
            ReturnedAfter([s EXCEPT !.final_answer = Some(FallbackAnswer(s, detail))], call)
    IN  IF ~resp.ok THEN fallback(resp.detail)
        ELSE LET answer == DictGet(resp.payload.answer, "Unable to generate answer.")
             IN  IF IsNone(answer) THEN fallback(NOT_SUBSCRIPTABLE)  \* line 370
                 ELSE ReturnedAfter([s EXCEPT !.final_answer = answer], call)

\* answer_generation_node run to its end.
answer_generation_node(s, resp) ==
    IF Truthy(s.sql_error)
    THEN Returned([s EXCEPT !.final_answer = Some("Error: " \o s.sql_error[1])])
    ELSE answer_generation_node_from_await(s, resp)

----------------------------------------------------------------------------
(* sql_execution_node and output_node.  outcome is what run_query did:     *)
(* [ok |-> TRUE, columns |-> ..., rows |-> ...] or [ok |-> FALSE, detail].  *)

\* Whether sql_execution_node, entered with the dict s, reaches run_query.
ExecutionCallsRunQuery(s) == Truthy(s.validated_sql)

\* Mutant of sql_execution_node: the failure is recorded as the bare detail,
\* without the "SQL execution failed: " prefix.
sql_execution_node_BareDetail(s, outcome) ==
    IF ~Truthy(s.validated_sql)
    THEN Returned([s EXCEPT !.sql_error = Some("No validated SQL to execute")])
    ELSE IF outcome.ok
    THEN ReturnedAfter([s EXCEPT !.result_columns = outcome.columns,
                                 !.result_rows    = outcome.rows,
                                 !.sql_error      = None],
                       RunQueryCall(s.validated_sql[1], outcome))
    ELSE ReturnedAfter([s EXCEPT !.sql_error      = Some(outcome.detail),
                                 !.result_columns = <<>>,
                                 !.result_rows    = <<>>],
                       RunQueryCall(s.validated_sql[1], outcome))

\* Mutant of sql_execution_node: a failing run_query is logged but not recorded
\* in sql_error.
sql_execution_node_FailureIgnored(s, outcome) ==
    IF ~Truthy(s.validated_sql)
    THEN Returned([s EXCEPT !.sql_error = Some("No validated SQL to execute")])
    ELSE IF outcome.ok
    THEN ReturnedAfter([s EXCEPT !.result_columns = outcome.columns,
                                 !.result_rows    = outcome.rows,
                                 !.sql_error      = None],
                       RunQueryCall(s.validated_sql[1], outcome))
    ELSE ReturnedAfter([s EXCEPT !.result_columns = <<>>,
                                 !.result_rows    = <<>>],
                       RunQueryCall(s.validated_sql[1], outcome))

sql_execution_node(s, outcome) ==
    IF ~Truthy(s.validated_sql)
    THEN Returned([s EXCEPT !.sql_error = Some("No validated SQL to execute")])
    ELSE LET call == RunQueryCall(s.validated_sql[1], outcome)
         IN  IF outcome.ok
             THEN ReturnedAfter([s EXCEPT !.result_columns = outcome.columns,
                                          !.result_rows    = outcome.rows,
                                          !.sql_error      = None], call)
             ELSE ReturnedAfter([s EXCEPT
                                    !.sql_error      = Some("SQL execution failed: " \o outcome.detail),
                                    !.result_columns = <<>>,
                                    !.result_rows    = <<>>], call)

\* output_node only logs.
output_node(s) == Returned(s)

----------------------------------------------------------------------------
(* The conditional edges and the graph.                                    *)

\* Mutant of should_repair: with the budget exhausted the run continues to
\* execution instead of skipping to the answer.
should_repair_ExhaustedContinues(s) ==
    IF Truthy(s.validated_sql) THEN "continue"
    ELSE IF Truthy(s.sql_error) /\ s.repair_count < MAX_REPAIR_ATTEMPTS THEN "repair"
    ELSE "continue"

\* Mutant of should_repair: the repair test comes before the validated test.
should_repair_RepairFirst(s) ==
    IF Truthy(s.sql_error) /\ s.repair_count < MAX_REPAIR_ATTEMPTS THEN "repair"
    ELSE IF Truthy(s.validated_sql) THEN "continue"
    ELSE IF Truthy(s.sql_error) /\ ~Truthy(s.validated_sql) THEN "skip_to_answer"
    ELSE "continue"

\* should_repair
should_repair(s) ==
    IF Truthy(s.validated_sql) THEN "continue"
    ELSE IF Truthy(s.sql_error) /\ s.repair_count < MAX_REPAIR_ATTEMPTS THEN "repair"
    ELSE IF Truthy(s.sql_error) /\ ~Truthy(s.validated_sql) THEN "skip_to_answer"
    ELSE "continue"

\* should_retry_validation
should_retry_validation(s) == "validate"

\* The node each value of should_repair leads to (add_conditional_edges).
EdgeAfterValidate(route) ==
    CASE route = "repair"         -> "repair_sql"
      [] route = "continue"       -> "execute_sql"
      [] route = "skip_to_answer" -> "generate_answer"

----------------------------------------------------------------------------
(* run_agent and the /chat handler.                                        *)

\* Mutant of AgentResult: the error field is left out of the result.
AgentResult_ErrorDropped(s) ==
    [answer_text |-> s.final_answer,
     sql         |-> s.validated_sql,
     columns     |-> s.result_columns,
     rows        |-> s.result_rows,
     error       |-> None]

\* The dict run_agent returns after the graph ran to END with the dict s.
AgentResult(s) ==
    [answer_text |-> s.final_answer,
     sql         |-> s.validated_sql,
     columns     |-> s.result_columns,
     rows        |-> s.result_rows,
     error       |-> s.sql_error]

\* Mutant of AgentFailure: answer_text is the bare detail, without the
\* "Agent execution failed: " prefix.
AgentFailure_BareAnswer(exc) ==
    [answer_text |-> Some(exc),
     sql         |-> None,
     columns     |-> <<>>,
     rows        |-> <<>>,
     error       |-> Some(exc)]

\* The dict run_agent returns when graph.ainvoke raised the exception exc.
AgentFailure(exc) ==
    [answer_text |-> Some("Agent execution failed: " \o exc),
     sql         |-> None,
     columns     |-> <<>>,
     rows        |-> <<>>,
     error       |-> Some(exc)]

\* Mutant of SchemaExcept: the failure is turned into a failure dict, as the
\* except clause around graph.ainvoke does.
SchemaExcept_Swallowed(exc) == [reraise |-> FALSE, result |-> Some(AgentFailure(exc))]

\* The except clause around get_schema (lines 502-504): it logs and re-raises,
\* so run_agent returns nothing.
SchemaExcept(exc) == [reraise |-> TRUE, result |-> None]

----------------------------------------------------------------------------
(* The inputs of a run: what the collaborators may answer.                 *)

\* Rows a successful run_query may return: 0..MaxRows.
MaxRows == 2

Q_DROP == <<"D","R","O","P"," ","T","A","B","L","E"," ","n","y","c","_","3","1","1">>    \* DROP TABLE nyc_311

Q_LIMIT_10 == <<"S","E","L","E","C","T"," ","*"," ","F","R","O","M"," ","n","y","c","_","3","1","1"," ","L","I","M","I","T"," ","1","0">>    \* SELECT * FROM nyc_311 LIMIT 10

Q_NO_LIMIT == <<"S","E","L","E","C","T"," ","1">>    \* SELECT 1

Q_LIMIT_5000 == <<"S","E","L","E","C","T"," ","*"," ","F","R","O","M"," ","n","y","c","_","3","1","1"," ","L","I","M","I","T"," ","5","0","0","0">>    \* SELECT * FROM nyc_311 LIMIT 5000

Q_BAD_TABLE == <<"S","E","L","E","C","T"," ","*"," ","F","R","O","M"," ","u","s","e","r","s"," ","L","I","M","I","T"," ","5">>    \* SELECT * FROM users LIMIT 5

Q_FORBIDDEN == <<"S","E","L","E","C","T"," ","1",";"," ","D","R","O","P"," ","T","A","B","L","E"," ","n","y","c","_","3","1","1">>    \* SELECT 1; DROP TABLE nyc_311

Q_EMPTY == <<>>

\* The candidate queries the backend may propose.
Candidates == {Q_DROP, Q_LIMIT_10, Q_NO_LIMIT, Q_LIMIT_5000, Q_BAD_TABLE, Q_FORBIDDEN, Q_EMPTY}

Question == "How many complaints are there?"

Schema == [table |-> "nyc_311", total_rows |-> 3, columns |-> <<"complaint_type", "cnt">>]

\* A parsed payload; fields the call site does not read are left missing.
Payload(sql, explanation, confidence, answer) ==
    [sql |-> sql, explanation |-> explanation, confidence |-> confidence, answer |-> answer]

BackendOk(payload) == [ok |-> TRUE, detail |-> "", payload |-> payload]

BackendFailed(detail) ==
    [ok |-> FALSE, detail |-> detail, payload |-> Payload(Missing, Missing, Missing, Missing)]

\* The outcome slot of a node that makes no call.
NoCall == BackendFailed("no call")

\* str(e) of a transport failure of the backend call.
TRANSPORT_ERROR == "All connection attempts failed"

\* Outcomes of the generation call: a candidate with explanation and confidence
\* (confidence in hundredths), a payload with a missing or null field, a failure.
GenResponses ==
    {BackendOk(Payload(JsonValue(q), JsonValue("explained"), JsonValue(90), Missing)) : q \in Candidates}
    \cup {BackendOk(Payload(Missing, Missing, Missing, Missing)),
          BackendOk(Payload(JsonNull, JsonValue("explained"), JsonValue(90), Missing)),
          BackendOk(Payload(JsonValue(Q_LIMIT_10), JsonNull, JsonValue(90), Missing)),
          BackendOk(Payload(JsonValue(Q_LIMIT_10), JsonValue("explained"), JsonNull, Missing)),
          BackendFailed(TRANSPORT_ERROR)}

\* Outcomes of a repair call.
RepairResponses ==
    {BackendOk(Payload(JsonValue(q), JsonValue("repaired"), Missing, Missing)) : q \in Candidates}
    \cup {BackendOk(Payload(Missing, Missing, Missing, Missing)),
          BackendOk(Payload(JsonNull, JsonValue("repaired"), Missing, Missing)),
          BackendFailed(TRANSPORT_ERROR)}

\* Outcomes of the answer call.
AnswerResponses ==
    {BackendOk(Payload(Missing, Missing, Missing, JsonValue("There are 3 complaints."))),
     BackendOk(Payload(Missing, Missing, Missing, JsonValue(""))),
     BackendOk(Payload(Missing, Missing, Missing, Missing)),
     BackendOk(Payload(Missing, Missing, Missing, JsonNull)),
     BackendFailed(TRANSPORT_ERROR)}

ResultColumns == <<"complaint_type", "cnt">>

ResultRow(i) == [complaint_type |-> "Noise", cnt |-> i]

QueryOk(n) == [ok |-> TRUE, detail |-> "", columns |-> ResultColumns,
               rows |-> [i \in 1..n |-> ResultRow(i)]]

QueryFailed(detail) == [ok |-> FALSE, detail |-> detail, columns |-> <<>>, rows |-> <<>>]

\* str(e) of a failing run_query.
EXECUTION_ERROR == "Binder Error: column not found"

\* Outcomes of run_query.
QueryOutcomes == {QueryOk(n) : n \in 0..MaxRows} \cup {QueryFailed(EXECUTION_ERROR)}

NoQuery == QueryFailed("no call")

\* str(e) of a failing get_schema.
SCHEMA_ERROR == "IO Error: cannot open the database file"

\* Outcomes of get_schema at the start of run_agent.
SchemaOutcomes == {[ok |-> TRUE, detail |-> ""], [ok |-> FALSE, detail |-> SCHEMA_ERROR]}

SchemaCall(outcome) == [ev |-> "get_schema", name |-> "get_schema", arg |-> <<>>, out |-> outcome]

----------------------------------------------------------------------------
(* The state machine of one /chat request.                                 *)

NoContext == <<>>

NoProbe == <<>>

Init ==
    /\ pc = "start"
    /\ state = NoContext
    /\ hist = <<>>
    /\ result = None
    /\ chat = "pending"
    /\ probe = NoProbe

\* One node of the graph ran: r is what it did, next the node its edge leads to.
\* An exception leaves graph.ainvoke and no further node runs.
NodeStep(name, r, next) ==
    /\ state' = r.st
    /\ hist' = hist \o <<NodeEvent(name)>> \o r.calls
                    \o (IF r.raised THEN <<RaiseEvent(name, r.exc)>> ELSE <<>>)
    /\ pc' = IF r.raised THEN "ainvoke_raised" ELSE next
    /\ UNCHANGED <<result, chat, probe>>

\* A node reached its "await call_deepseek_json(...)": it is suspended holding the
\* dict st, and the event loop runs until the reply arrives.
NodeAwait(name, st, call, arg) ==
    /\ state' = st
    /\ hist' = hist \o <<NodeEvent(name), AwaitEvent(call, arg)>>
    /\ pc' = name \o "_await"
    /\ UNCHANGED <<result, chat, probe>>

\* The reply arrived and the node ran to its end: r is what it did from the
\* await on.  The call gets its outcome in the history.
NodeResume(name, r, next) ==
    /\ state' = r.st
    /\ hist' = SubSeq(hist, 1, Len(hist) - 1)
                  \o <<BackendCall(hist[Len(hist)].name, hist[Len(hist)].arg, r.calls[1].out)>>
                  \o (IF r.raised THEN <<RaiseEvent(name, r.exc)>> ELSE <<>>)
    /\ pc' = IF r.raised THEN "ainvoke_raised" ELSE next
    /\ UNCHANGED <<result, chat, probe>>

\* run_agent up to graph.ainvoke: get_schema, then the context dict.
RunAgentStart ==
    /\ pc = "start"
    /\ \E outcome \in SchemaOutcomes :
          /\ hist' = hist \o <<SchemaCall(outcome)>>
          /\ IF outcome.ok
             THEN state' = NewContext(Question, Schema) /\ pc' = "input" /\ result' = result
             ELSE \E h \in {SchemaExcept(outcome.detail)} :
                     /\ state' = state
                     /\ result' = h.result
                     /\ pc' = IF h.reraise THEN "run_agent_raised" ELSE "returned"
    /\ UNCHANGED <<chat, probe>>

InputNode ==
    /\ pc = "input"
    /\ NodeStep("input", input_node(state), "generate_sql")

\* sql_generation_node up to line 91; the dict is as it was on entry.
GenerateSql ==
    /\ pc = "generate_sql"
    /\ NodeAwait("generate_sql", state, "generate", state.user_question)

\* sql_generation_node from line 91 on.
GenerateSqlResume ==
    /\ pc = "generate_sql_await"
    /\ \E resp \in GenResponses :
          NodeResume("generate_sql", sql_generation_node(state, resp), "validate_sql")

ValidateSql ==
    /\ pc = "validate_sql"
    /\ \E r \in {sql_validation_node(state)} :
          NodeStep("validate_sql", r, EdgeAfterValidate(should_repair(r.st)))

\* sql_repair_node up to line 257, or to its end when it returns or raises
\* before the call.
RepairSql ==
    /\ pc = "repair_sql"
    /\ IF RepairCallsBackend(state)
       THEN NodeAwait("repair_sql", sql_repair_node_until_await(state), "repair",
                      <<state.deepseek_sql, state.sql_error>>)
       ELSE NodeStep("repair_sql", sql_repair_node(state, NoCall),
                     should_retry_validation(state) \o "_sql")

\* sql_repair_node from line 257 on.
RepairSqlResume ==
    /\ pc = "repair_sql_await"
    /\ \E resp \in RepairResponses :
          NodeResume("repair_sql", sql_repair_node_from_await(state, resp),
                     should_retry_validation(state) \o "_sql")

ExecuteSql ==
    /\ pc = "execute_sql"
    /\ \E outcome \in (IF ExecutionCallsRunQuery(state) THEN QueryOutcomes ELSE {NoQuery}) :
          NodeStep("execute_sql", sql_execution_node(state, outcome), "generate_answer")

\* answer_generation_node up to line 366, or to its end when sql_error is set
\* (lines 316-319).
GenerateAnswer ==
    /\ pc = "generate_answer"
    /\ IF AnswerCallsBackend(state)
       THEN NodeAwait("generate_answer", state, "answer", state.validated_sql)
       ELSE NodeStep("generate_answer", answer_generation_node(state, NoCall), "output")

\* answer_generation_node from line 366 on.
GenerateAnswerResume ==
    /\ pc = "generate_answer_await"
    /\ \E resp \in AnswerResponses :
          NodeResume("generate_answer", answer_generation_node_from_await(state, resp), "output")

OutputNode ==
    /\ pc = "output"
    /\ NodeStep("output", output_node(state), "END")

\* run_agent after graph.ainvoke: the result dict, or the failure dict built from
\* the exception that left the graph.
RunAgentReturn ==
    /\ pc \in {"END", "ainvoke_raised"}
    /\ result' = IF pc = "END" THEN Some(AgentResult(state))
                 ELSE Some(AgentFailure(hist[Len(hist)].out))
    /\ pc' = "returned"
    /\ UNCHANGED <<state, hist, chat, probe>>

\* The /chat handler after run_agent: it returns ChatResponse(**result), or lets
\* the exception of run_agent through.
Chat ==
    /\ pc \in {"returned", "run_agent_raised"}
    /\ chat' = IF pc = "returned" THEN "response" ELSE "raised"
    /\ pc' = "done"
    /\ UNCHANGED <<state, hist, result, probe>>

Next ==
    \/ RunAgentStart
    \/ InputNode
    \/ GenerateSql
    \/ GenerateSqlResume
    \/ ValidateSql
    \/ RepairSql
    \/ RepairSqlResume
    \/ ExecuteSql
    \/ GenerateAnswer
    \/ GenerateAnswerResume
    \/ OutputNode
    \/ RunAgentReturn
    \/ Chat

Spec == Init /\ [][Next]_vars

----------------------------------------------------------------------------
(* The routing policy as a pure function: should_repair applied to every   *)
(* combination of the three fields it reads.                               *)

\* repair_count values probed: 0..MaxProbeRepairCount.
MaxProbeRepairCount == 3

RoutingInputs ==
    {[NewContext(Question, Schema) EXCEPT !.validated_sql = v, !.sql_error = e, !.repair_count = n] :
        v \in {None, Some(Q_EMPTY), Some(Q_LIMIT_10), Some(Q_NO_LIMIT)},
        e \in {None, Some(""), Some("SQL query is empty"), Some("LIMIT value 5000 exceeds maximum of 1000")},
        n \in 0..MaxProbeRepairCount}

InitRouting ==
    /\ pc = "probe"
    /\ state = NoContext
    /\ hist = <<>>
    /\ result = None
    /\ chat = "pending"
    /\ probe \in {[in |-> s, out |-> None] : s \in RoutingInputs}

ProbeRouting ==
    /\ pc = "probe"
    /\ probe' = [probe EXCEPT !.out = Some(should_repair(probe.in))]
    /\ pc' = "probed"
    /\ UNCHANGED <<state, hist, result, chat>>

NextRouting == ProbeRouting

SpecRouting == InitRouting /\ [][NextRouting]_vars

----------------------------------------------------------------------------
(* The validator as a pure function: sql_validation_node applied to a      *)
(* candidate, and applied once more to the text it accepted.               *)

Q_DROP_T == <<"D","R","O","P"," ","T","A","B","L","E"," ","t">>    \* DROP TABLE t

Q_SELECT_LOWER == <<"s","e","l","e","c","t"," ","1">>    \* select 1

Q_WITH_X == <<"W","i","t","h"," ","x"," ","a","s"," ","(","s","e","l","e","c","t"," ","1",")"," ","s","e","l","e","c","t"," ","*"," ","f","r","o","m"," ","x">>    \* With x as (select 1) select * from x

Q_EXPLAIN == <<"E","X","P","L","A","I","N"," ","S","E","L","E","C","T"," ","1">>    \* EXPLAIN SELECT 1

Q_BLANK == <<" "," ">>    \*   

Q_GROUP_BY == <<"S","E","L","E","C","T"," ","c","o","m","p","l","a","i","n","t","_","t","y","p","e",","," ","C","O","U","N","T","(","*",")"," ","F","R","O","M"," ","n","y","c","_","3","1","1"," ","G","R","O","U","P"," ","B","Y"," ","c","o","m","p","l","a","i","n","t","_","t","y","p","e">>    \* SELECT complaint_type, COUNT(*) FROM nyc_311 GROUP BY complaint_type

Q_NESTED_LIMIT == <<"S","E","L","E","C","T"," ","*"," ","F","R","O","M"," ","(","S","E","L","E","C","T"," ","*"," ","F","R","O","M"," ","n","y","c","_","3","1","1"," ","L","I","M","I","T"," ","1","0",")"," ","L","I","M","I","T"," ","5","0","0","0">>    \* SELECT * FROM (SELECT * FROM nyc_311 LIMIT 10) LIMIT 5000

Q_TRAILING_FROM == <<"S","E","L","E","C","T"," ","1"," ","F","R","O","M">>    \* SELECT 1 FROM

Q_TWO_CTES == <<"W","I","T","H"," ","a"," ","A","S"," ","(","S","E","L","E","C","T"," ","1",")",","," ","b"," ","A","S"," ","(","S","E","L","E","C","T"," ","2",")"," ","S","E","L","E","C","T"," ","*"," ","F","R","O","M"," ","b">>    \* WITH a AS (SELECT 1), b AS (SELECT 2) SELECT * FROM b

Q_DROPDOWN == <<"S","E","L","E","C","T"," ","d","r","o","p","d","o","w","n"," ","F","R","O","M"," ","n","y","c","_","3","1","1">>    \* SELECT dropdown FROM nyc_311

Q_LOWER_DROP == <<"s","e","l","e","c","t"," ","d","r","o","p"," ","f","r","o","m"," ","n","y","c","_","3","1","1">>    \* select drop from nyc_311

Q_BAD_TABLE_AND_LIMIT == <<"S","E","L","E","C","T"," ","*"," ","F","R","O","M"," ","u","s","e","r","s"," ","L","I","M","I","T"," ","5","0","0","0">>    \* SELECT * FROM users LIMIT 5000

Q_TERMINATOR_BLANK == <<"S","E","L","E","C","T"," ","1",";"," ">>    \* "SELECT 1; "

\* The beginnings of the candidates probed.
QueryHeads ==
    {<<"S","E","L","E","C","T"," ","*">>,    \* "SELECT *"
     <<"s","e","l","e","c","t"," ","d","r","o","p","d","o","w","n">>,    \* "select dropdown"
     <<"W","i","t","h"," ","x"," ","a","s"," ","(","s","e","l","e","c","t"," ","1",")"," ","s","e","l","e","c","t"," ","*">>,    \* "With x as (select 1) select *"
     <<"W","I","T","H"," ","a"," ","A","S"," ","(","S","E","L","E","C","T"," ","1",")",","," ","b"," ","A","S"," ","(","S","E","L","E","C","T"," ","2",")"," ","S","E","L","E","C","T"," ","*">>,    \* "WITH a AS (SELECT 1), b AS (SELECT 2) SELECT *"
     <<"E","X","P","L","A","I","N"," ","S","E","L","E","C","T"," ","*">>,    \* "EXPLAIN SELECT *"
     <<"S","E","L","E","C","T"," ","d","r","o","p",","," ","D","e","l","e","t","e">>,    \* "SELECT drop, Delete"
     <<" ","s","e","l","e","c","t"," ","1">>}    \* " select 1"

\* Their FROM parts.
QueryFroms ==
    {<<>>,    \* ""
     <<" ","F","R","O","M"," ","n","y","c","_","3","1","1">>,    \* " FROM nyc_311"
     <<" ","f","r","o","m"," ","N","y","c","_","3","1","1">>,    \* " from Nyc_311"
     <<" ","F","R","O","M"," ","u","s","e","r","s">>,    \* " FROM users"
     <<" ","f","r","o","m"," ","x">>,    \* " from x"
     <<" ","F","R","O","M"," ","b">>,    \* " FROM b"
     <<" ","F","R","O","M"," ","(","S","E","L","E","C","T"," ","*"," ","F","R","O","M"," ","n","y","c","_","3","1","1"," ","L","I","M","I","T"," ","1","0",")">>,    \* " FROM (SELECT * FROM nyc_311 LIMIT 10)"
     <<" ","F","R","O","M"," ","n","y","c","_","3","1","1"," ","J","O","I","N"," ","t"," ","O","N"," ","1">>,    \* " FROM nyc_311 JOIN t ON 1"
     <<" ","F","R","O","M">>}    \* " FROM"

\* Their endings.
QueryTails ==
    {<<>>,    \* ""
     <<" ","L","I","M","I","T"," ","1","0">>,    \* " LIMIT 10"
     <<" ","L","I","M","I","T"," ","5","0","0","0">>,    \* " LIMIT 5000"
     <<" ","l","i","m","i","t"," ","1","0","0","0">>,    \* " limit 1000"
     <<" ","L","I","M","I","T"," ","1","0","0","1",";">>,    \* " LIMIT 1001;"
     <<";">>,    \* ";"
     <<" ">>}    \* " "

\* The candidates probed: every beginning with every FROM part and ending, and
\* the named queries.
ValidatorQueries ==
    {h \o f \o t : h \in QueryHeads, f \in QueryFroms, t \in QueryTails}
    \cup {Q_DROP_T, Q_SELECT_LOWER, Q_WITH_X, Q_EXPLAIN, Q_BLANK, Q_GROUP_BY, Q_NESTED_LIMIT,
          Q_TRAILING_FROM, Q_TWO_CTES, Q_DROPDOWN, Q_LOWER_DROP, Q_BAD_TABLE_AND_LIMIT,
          Q_TERMINATOR_BLANK}
    \cup Candidates

\* The dict on entry to the node: the candidate q, and the sql_error a failed
\* repair call may have left (the node clears it).
ValidatorInput(q, e) ==
    [NewContext(Question, Schema) EXCEPT !.deepseek_sql = Some(q), !.sql_error = e]

StaleErrors == {None, Some("SQL repair failed: " \o TRANSPORT_ERROR)}

InitValidator ==
    /\ pc = "probe_sql"
    /\ state = NoContext
    /\ hist = <<>>
    /\ result = None
    /\ chat = "pending"
    /\ probe \in {[in |-> ValidatorInput(q, e), out |-> None, again |-> None] :
                      q \in ValidatorQueries, e \in StaleErrors}

\* The node runs on the probed dict.
ProbeValidator ==
    /\ pc = "probe_sql"
    /\ probe' = [probe EXCEPT !.out = Some(sql_validation_node(probe.in))]
    /\ pc' = "probed_sql"
    /\ UNCHANGED <<state, hist, result, chat>>

\* The node runs again on the dict it returned with an accepted query.
ReprobeValidator ==
    /\ pc = "probed_sql"
    /\ Truthy(probe.out[1].st.validated_sql)
    /\ probe' = [probe EXCEPT !.again = Some(sql_validation_node(probe.out[1].st))]
    /\ pc' = "reprobed_sql"
    /\ UNCHANGED <<state, hist, result, chat>>

NextValidator == ProbeValidator \/ ReprobeValidator

SpecValidator == InitValidator /\ [][NextValidator]_vars

\* Reading a probe of the validator.
Probed == pc \in {"probed_sql", "reprobed_sql"}

Reprobed == pc = "reprobed_sql"

\* The candidate probed, the dict the node returned, and the error it recorded.
ProbedSql == probe.in.deepseek_sql[1]

ProbedOut == probe.out[1].st

ProbedError == probe.out[1].st.sql_error

\* The node accepted / rejected the candidate probed.
ProbedAccepted == Truthy(ProbedOut.validated_sql) /\ IsNone(ProbedError)

ProbedRejected == IsNone(ProbedOut.validated_sql) /\ ~IsNone(ProbedError)

----------------------------------------------------------------------------
(* Reading the history.                                                    *)

\* The workflow record exists.
Created == state # NoContext

\* The node name has been entered.
Visited(name) == \E i \in DOMAIN hist : hist[i].ev = "node" /\ hist[i].name = name

\* The positions of the backend calls of one call site, of all backend calls, of
\* the run_query calls and of the exceptions that left a node.
BackendCallsOf(name) == {i \in DOMAIN hist : hist[i].ev = "backend" /\ hist[i].name = name}

BackendCalls == {i \in DOMAIN hist : hist[i].ev = "backend"}

RunQueryCalls == {i \in DOMAIN hist : hist[i].ev = "run_query"}

Raises == {i \in DOMAIN hist : hist[i].ev = "raise"}

\* get_schema was called and returned / raised.
SchemaObtained == hist # <<>> /\ hist[1].ev = "get_schema" /\ hist[1].out.ok

SchemaFailed == hist # <<>> /\ hist[1].ev = "get_schema" /\ ~hist[1].out.ok

\* The request is over: the /chat handler returned or raised.
RequestOver == pc = "done"

\* Position i holds the entry of node name.
IsNodeAt(i, name) == i \in DOMAIN hist /\ hist[i].ev = "node" /\ hist[i].name = name

\* Routing branch 3 fired after the validation pass entered at position i: the
\* next node entered is generate_answer.
Branch3At(i) == IsNodeAt(i, "validate_sql") /\ IsNodeAt(i + 1, "generate_answer")

\* The backend call at position i returned a payload whose sql is the text q.
ProposedAt(i, q) == hist[i].out.ok /\ hist[i].out.payload.sql = JsonValue(q)

----------------------------------------------------------------------------
(* C1 - C10.                                                               *)

\* C1: in every reachable state of a run repair_count is between 0 and 2, in
\* particular when the run has reached the output node.
C1_RepairCountBounded ==
    Created => /\ state.repair_count >= 0
               /\ state.repair_count <= 2
               /\ (Visited("output") => state.repair_count <= 2)

C1_Witness == Created /\ Visited("output") /\ state.repair_count = 2

\* C2 (as claimed): once the schema has been obtained, every run reaches the
\* output node with a non-empty final_answer, whatever the calls answer.  On a
\* finished request: the output node was entered and final_answer is non-empty.
C2_EveryRunReachesDone ==
    (RequestOver /\ SchemaObtained) => Visited("output") /\ Truthy(state.final_answer)

\* C3: run_query is called at most once per run and only with the query the
\* validation pass just before it accepted (the candidate the last backend call
\* proposed, limit-normalized); and when validation failed with the budget
\* exhausted the run goes from validation straight to answer generation, with no
\* run_query call at all and no backend call afterwards.
C3_RunQueryOnlyValidated ==
    /\ Cardinality(RunQueryCalls) <= 1
    /\ \A i \in RunQueryCalls :
          /\ IsNodeAt(i - 1, "execute_sql")
          /\ IsNodeAt(i - 2, "validate_sql")
          /\ state.validated_sql = Some(hist[i].arg)
          /\ \E j \in BackendCalls :
                /\ j < i
                /\ \A k \in BackendCalls : k < i => k <= j
                /\ hist[j].name \in {"generate", "repair"}
                /\ \E q \in Candidates :
                      /\ ProposedAt(j, q)
                      /\ IsNone(ValidationError(q))
                      /\ hist[i].arg = NormalizedSql(q)
    /\ (Created /\ hist[Len(hist)] = NodeEvent("validate_sql")
          /\ Truthy(state.sql_error) /\ state.repair_count >= 2)
       => pc = "generate_answer"
    /\ \A i \in DOMAIN hist :
          Branch3At(i) => /\ RunQueryCalls = {}
                          /\ \A k \in BackendCalls : k < i
                          /\ Truthy(state.sql_error)
                          /\ ~Truthy(state.validated_sql)

C3_Witness ==
    /\ RequestOver
    /\ \E i \in DOMAIN hist : Branch3At(i)

\* C4 (as claimed): in every reachable state, and in the result returned to the
\* caller, validated_sql is not non-empty while sql_error is set.
C4_NeverValidatedWithError ==
    /\ Created => ~(Truthy(state.validated_sql) /\ Truthy(state.sql_error))
    /\ ~IsNone(result) => ~(Truthy(result[1].sql) /\ Truthy(result[1].error))

\* C4 (amended): validated_sql is non-empty while sql_error is set only after
\* the execution node's run_query call failed, and sql_error is then the
\* execution failure; before the execution node has run, and after a successful
\* run_query, the two are never set together.
C4_ValidatedWithErrorOnlyAfterFailedExecution ==
    /\ (Created /\ Truthy(state.validated_sql) /\ Truthy(state.sql_error))
       => \E i \in RunQueryCalls :
             /\ ~hist[i].out.ok
             /\ state.sql_error = Some("SQL execution failed: " \o hist[i].out.detail)
    /\ (~IsNone(result) /\ Truthy(result[1].sql) /\ Truthy(result[1].error))
       => \E i \in RunQueryCalls :
             /\ ~hist[i].out.ok
             /\ result[1].error = Some("SQL execution failed: " \o hist[i].out.detail)

C4_Witness ==
    /\ RequestOver
    /\ ~IsNone(result)
    /\ Truthy(result[1].sql)
    /\ Truthy(result[1].error)
    /\ Truthy(state.validated_sql)
    /\ Truthy(state.sql_error)

\* C5: should_repair follows the priority order for every combination of the
\* three fields: execution exactly when validated_sql is set or sql_error is
\* not; repair exactly when validated_sql is not set, sql_error is and
\* repair_count < 2; answer generation exactly when validated_sql is not set,
\* sql_error is and repair_count >= 2.
C5_RoutingPriority ==
    (pc = "probed") =>
        LET v == Truthy(probe.in.validated_sql)
            e == Truthy(probe.in.sql_error)
            n == probe.in.repair_count
            to == EdgeAfterValidate(probe.out[1])
        IN  /\ (to = "execute_sql") <=> (v \/ ~e)
            /\ (to = "repair_sql") <=> (~v /\ e /\ n < 2)
            /\ (to = "generate_answer") <=> (~v /\ e /\ n >= 2)

C5_Witness ==
    /\ pc = "probed"
    /\ probe.out = Some("skip_to_answer")
    /\ Truthy(probe.in.sql_error)
    /\ probe.in.repair_count = 2

\* The run is over and the generator and every repair call proposed
\* "DROP TABLE nyc_311".
AlwaysDrop ==
    /\ RequestOver
    /\ BackendCallsOf("generate") # {}
    /\ \A i \in BackendCallsOf("generate") \cup BackendCallsOf("repair") : ProposedAt(i, Q_DROP)

\* C6 (as claimed): when the generator and every repair call propose
\* "DROP TABLE nyc_311" the run makes exactly 2 repair attempts, branch 3 fires
\* and final_answer is the budget-exhausted message naming the forbidden keyword.
C6_DropEndsWithBudgetMessage ==
    AlwaysDrop =>
        /\ Cardinality(BackendCallsOf("repair")) = 2
        /\ \E i \in DOMAIN hist : Branch3At(i)
        /\ state.final_answer =
              Some("Error: Maximum repair attempts (2) reached. Last error: Forbidden keyword found: DROP")

\* C6 (amended): in that scenario the run makes exactly 2 repair attempts,
\* branch 3 fires and final_answer is "Error: SQL must start with SELECT or
\* WITH"; and whenever branch 3 fired and the answer node ran, final_answer is
\* "Error: " followed by the validation error of the last candidate, never the
\* "Maximum repair attempts" message.
C6_DropEndsWithValidationError ==
    /\ AlwaysDrop =>
          /\ Cardinality(BackendCallsOf("repair")) = 2
          /\ state.repair_count = 2
          /\ \E i \in DOMAIN hist : Branch3At(i)
          /\ state.final_answer = Some("Error: SQL must start with SELECT or WITH")
    /\ \A i \in DOMAIN hist :
          (Branch3At(i) /\ pc # "generate_answer") =>
              /\ state.sql_error = ValidationError(state.deepseek_sql[1])
              /\ state.final_answer = Some("Error: " \o state.sql_error[1])
              /\ state.final_answer #
                    Some("Error: Maximum repair attempts (2) reached. Last error: "
                         \o state.sql_error[1])

C6_Witness ==
    /\ AlwaysDrop
    /\ state.final_answer = Some("Error: SQL must start with SELECT or WITH")

\* The generation call failed: call_deepseek_json raised.
GenerationCallFailed == \E i \in BackendCallsOf("generate") : ~hist[i].out.ok

\* C7 (as claimed): when the generator's backend call fails, the candidate is
\* left empty, a generation-failed error is recorded, repair_count stays 0, and
\* the run continues through validation and routing to repair or answer
\* generation and ends at the output node with the answer node's final_answer.
C7_GenerationFailureContinues ==
    /\ (GenerationCallFailed /\ pc = "validate_sql") =>
          /\ IsNone(state.deepseek_sql)
          /\ state.sql_error = Some("SQL generation failed: " \o TRANSPORT_ERROR)
          /\ state.repair_count = 0
    /\ (GenerationCallFailed /\ RequestOver) =>
          /\ Visited("generate_answer")
          /\ Visited("output")
          /\ Truthy(state.final_answer)
          /\ result[1].answer_text = state.final_answer

\* C8: after run_query failed on a validated query, sql_error is
\* "SQL execution failed: <detail>", the results are empty, only the answer and
\* output nodes follow, no backend call follows, and final_answer is
\* "Error: SQL execution failed: <detail>".
C8_ExecutionFailureIsTerminal ==
    \A i \in RunQueryCalls :
        ~hist[i].out.ok =>
            /\ state.sql_error = Some("SQL execution failed: " \o hist[i].out.detail)
            /\ state.result_columns = <<>>
            /\ state.result_rows = <<>>
            /\ Truthy(state.validated_sql)
            /\ \A k \in (i + 1)..Len(hist) :
                  hist[k] \in {NodeEvent("generate_answer"), NodeEvent("output")}
            /\ Visited("generate_answer") =>
                  state.final_answer =
                      Some("Error: SQL execution failed: " \o hist[i].out.detail)
            /\ ~IsNone(result) =>
                  /\ Visited("output")
                  /\ result[1].answer_text =
                        Some("Error: SQL execution failed: " \o hist[i].out.detail)

C8_Witness ==
    /\ RequestOver
    /\ \E i \in RunQueryCalls : ~hist[i].out.ok
    /\ state.final_answer = Some("Error: SQL execution failed: " \o EXECUTION_ERROR)

\* C9 (as claimed): no workflow node raises, in any state a run reaches.
C9_NoNodeRaises == Raises = {}

\* C10: run_agent raises exactly when get_schema failed; then no workflow
\* record exists, no node ran, no backend or run_query call was made, nothing was
\* returned, and the /chat handler raises instead of responding.
C10_SchemaFailureAborts ==
    /\ SchemaFailed =>
          /\ ~Created
          /\ Len(hist) = 1
          /\ IsNone(result)
          /\ pc \in {"run_agent_raised", "done"}
          /\ chat = IF pc = "done" THEN "raised" ELSE "pending"
    /\ (pc = "run_agent_raised" \/ chat = "raised") => SchemaFailed
    /\ (RequestOver /\ ~SchemaFailed) => chat = "response" /\ ~IsNone(result)

C10_Witness == RequestOver /\ SchemaFailed /\ chat = "raised"

----------------------------------------------------------------------------
(* C11 - C20.                                                              *)

\* s starts with the upper-case literal p, letter case of s ignored.
StartsWithIgnoreCase(s, p) ==
    Len(s) >= Len(p) /\ \A i \in 1..Len(p) : UpperChar(s[i]) = p[i]

\* The trimmed query q starts, case-insensitively, with SELECT or WITH.
HasAllowedForm(q) ==
    StartsWithIgnoreCase(Strip(q), KW_SELECT) \/ StartsWithIgnoreCase(Strip(q), KW_WITH)

\* C11: a non-empty query is rejected with "SQL must start with SELECT or WITH"
\* exactly when its trimmed text does not start, case-insensitively, with SELECT
\* or WITH; "select 1" and "With x as (select 1) select * from x" are accepted
\* and "EXPLAIN SELECT 1" is rejected with that error.
C11_FormCheck ==
    Probed =>
        /\ Strip(ProbedSql) # <<>> =>
              (ProbedError = Some("SQL must start with SELECT or WITH") <=> ~HasAllowedForm(ProbedSql))
        /\ ProbedSql \in {Q_SELECT_LOWER, Q_WITH_X} => ProbedAccepted
        /\ ProbedSql = Q_EXPLAIN =>
              ProbedRejected /\ ProbedError = Some("SQL must start with SELECT or WITH")

C11_Witness ==
    /\ Probed
    /\ ProbedSql = Q_WITH_X
    /\ ProbedAccepted

\* The word w (made of word characters) occurs in s with no word character on
\* either side.
ContainsWord(s, w) ==
    \E i \in 1..(Len(s) - Len(w) + 1) :
        /\ Slice(s, i, i + Len(w) - 1) = w
        /\ ~WordCharAt(s, i - 1)
        /\ ~WordCharAt(s, i + Len(w))

\* The indices of the forbidden keywords that occur in q as whole words, in any
\* letter case.
KeywordsIn(q) == {k \in DOMAIN forbidden_keywords : ContainsWord(Upper(q), forbidden_keywords[k])}

KeywordError(k) == Some("Forbidden keyword found: " \o Str(forbidden_keywords[k]))

\* C12 as stated: every query that contains a forbidden keyword as a whole word,
\* in any letter case, is rejected with the error naming such a keyword, "DROP
\* TABLE t" with the one naming DROP; a keyword inside a longer word does not
\* reject.
C12_KeywordAlwaysNamed ==
    Probed =>
        /\ KeywordsIn(ProbedSql) # {} =>
              \E k \in KeywordsIn(ProbedSql) : ProbedError = KeywordError(k)
        /\ ProbedSql = Q_DROP_T => ProbedError = KeywordError(4)
        /\ \A k \in DOMAIN forbidden_keywords :
              ProbedError = KeywordError(k) => k \in KeywordsIn(ProbedSql)

\* C12 (amended): a query that passes the empty and statement-form checks and
\* contains forbidden keywords as whole words, in any letter case, is rejected
\* with the error naming the first of them in the order of the keyword list; a
\* query is rejected for a keyword only if it contains it as a whole word
\* ("dropdown" does not reject); "DROP TABLE t" fails the statement-form check
\* first and is rejected with "SQL must start with SELECT or WITH".
C12_KeywordNamedAfterFormCheck ==
    Probed =>
        /\ (HasAllowedForm(ProbedSql) /\ KeywordsIn(ProbedSql) # {}) =>
              /\ ProbedRejected
              /\ ProbedError = KeywordError(CHOOSE k \in KeywordsIn(ProbedSql) :
                                               \A j \in KeywordsIn(ProbedSql) : k <= j)
        /\ \A k \in DOMAIN forbidden_keywords :
              ProbedError = KeywordError(k) => k \in KeywordsIn(ProbedSql)
        /\ ProbedSql = Q_DROPDOWN => ProbedAccepted
        /\ ProbedSql = Q_DROP_T =>
              ProbedRejected /\ ProbedError = Some("SQL must start with SELECT or WITH")

C12_Witness ==
    /\ Probed
    /\ ProbedSql = Q_LOWER_DROP
    /\ ProbedError = Some("Forbidden keyword found: DROP")

\* The values of the LIMIT n clauses of q: the numbers that follow a whole-word
\* LIMIT, in any letter case, anywhere in the text.
LimitValues(q) ==
    {ParseInt(Slice(Upper(q), m[1], m[2])) :
        m \in {KeywordArgAt(Upper(q), i, KW_LIMIT, DigitChars) : i \in 1..Len(q)} \ {<<>>}}

\* C13: a query that contains, anywhere, a LIMIT n clause with n > 1000 never
\* becomes validated_sql.
C13_OverLimitNeverValidated ==
    Probed =>
        ((\E n \in LimitValues(ProbedSql) : n > MAX_LIMIT) => IsNone(ProbedOut.validated_sql))

\* s ends with the text p.
EndsWith(s, p) == Len(s) >= Len(p) /\ Slice(s, Len(s) - Len(p) + 1, Len(s)) = p

\* C14: an accepted query without a LIMIT clause ends with " LIMIT 1000" once
\* validated, and the validator run on an accepted validated_sql accepts it and
\* returns it unchanged.
C14_LimitAppendedAndIdempotent ==
    /\ (Probed /\ ProbedAccepted /\ LimitValues(ProbedSql) = {}) =>
           EndsWith(ProbedOut.validated_sql[1], LIMIT_SUFFIX)
    /\ Reprobed =>
           /\ IsNone(probe.again[1].st.sql_error)
           /\ probe.again[1].st.validated_sql = ProbedOut.validated_sql

\* Position i of u starts a word followed by AS and an opening parenthesis:
\* the end of that word, 0 when there is none.
CteNameEnd(u, i, e) ==
    IF ~(WordBoundary(u, i) /\ WordCharAt(u, i)) THEN 0
    ELSE IF RunEnd(u, e + 1, SpaceChars) <= e THEN 0
    ELSE IF ~LiteralAt(u, RunEnd(u, e + 1, SpaceChars) + 1, <<"A", "S">>) THEN 0
    ELSE IF LiteralAt(u, RunEnd(u, RunEnd(u, e + 1, SpaceChars) + 3, SpaceChars) + 1, <<"(">>)
    THEN e ELSE 0

\* The names of the CTEs the WITH clause of the upper-cased query u declares:
\* every "name AS (" of a query that starts with WITH.
DeclaredCtes(u) ==
    IF ~StartsWith(u, KW_WITH) THEN {}
    ELSE {Slice(u, i, CteNameEnd(u, i, RunEnd(u, i, WordChars))) :
             i \in {j \in 1..Len(u) : CteNameEnd(u, j, RunEnd(u, j, WordChars)) > 0}}

\* The node rejected the probed candidate with an invalid-table-reference error.
TableRejected ==
    \E i \in DOMAIN TableRefs(SqlUpper(ProbedSql)) :
        ProbedError = TableMessage(Some(TableRefs(SqlUpper(ProbedSql))[i]))

\* C15: a query that passed the empty, statement-form and keyword checks is
\* rejected with an invalid-table-reference error exactly when an identifier
\* after a whole-word FROM or JOIN is neither nyc_311 in any letter case nor a
\* CTE the WITH clause declares.
C15_TableRejectionIffUndeclared ==
    (Probed /\ Strip(ProbedSql) # <<>> /\ HasAllowedForm(ProbedSql) /\ KeywordsIn(ProbedSql) = {}) =>
        (TableRejected <=>
            \E i \in DOMAIN TableRefs(SqlUpper(ProbedSql)) :
                /\ Lower(TableRefs(SqlUpper(ProbedSql))[i]) # BASE_TABLE
                /\ TableRefs(SqlUpper(ProbedSql))[i] \notin DeclaredCtes(SqlUpper(ProbedSql)))

\* The error the probed candidate must get when the checks run in the order
\* empty, statement form, forbidden keyword, table reference, LIMIT value and
\* the first failure is terminal.
FirstFailure(sql, sqlUpper) ==
    IF ~IsNone(EmptyError(sql)) THEN EmptyError(sql)
    ELSE IF ~IsNone(FormError(sqlUpper)) THEN FormError(sqlUpper)
    ELSE IF ~IsNone(ForbiddenError(sqlUpper)) THEN ForbiddenError(sqlUpper)
    ELSE IF ~IsNone(TableError(sqlUpper)) THEN TableError(sqlUpper)
    ELSE LimitError(sqlUpper)

\* C16: the recorded error is the error of the first check, in the order empty,
\* statement form, forbidden keyword, table reference, LIMIT value, that the
\* query fails, and validated_sql is set exactly when no check fails.
C16_FirstFailingCheckWins ==
    Probed =>
        /\ ~probe.out[1].raised
        /\ ProbedError = FirstFailure(ProbedSql, SqlUpper(ProbedSql))
        /\ ~IsNone(ProbedOut.validated_sql) <=> IsNone(FirstFailure(ProbedSql, SqlUpper(ProbedSql)))

\* A query that fails both the table check and the LIMIT check gets the table
\* error.
C16_Witness ==
    /\ Probed
    /\ ProbedSql = Q_BAD_TABLE_AND_LIMIT
    /\ ~IsNone(LimitError(SqlUpper(ProbedSql)))
    /\ ProbedError = Some("Invalid table reference: USERS. Only 'nyc_311' and CTEs are allowed.")
    /\ IsNone(ProbedOut.validated_sql)

\* The step in which a node issues its backend call and is suspended: the entry
\* of the node and the pending call are recorded.
StepIssuedCall(name) ==
    /\ Len(hist') = Len(hist) + 2
    /\ hist'[Len(hist) + 2].ev = "await"
    /\ hist'[Len(hist) + 2].name = name

\* The step in which the backend call of a suspended node returns or raises and
\* the node runs to its end: the pending call gets its outcome.
CallOfStep == hist'[Len(hist)]

StepCalledBackend(name) ==
    /\ hist # <<>>
    /\ hist[Len(hist)] = AwaitEvent(name, hist[Len(hist)].arg)
    /\ Len(hist') >= Len(hist)
    /\ CallOfStep.ev = "backend"
    /\ CallOfStep.name = name
    /\ CallOfStep.arg = hist[Len(hist)].arg

\* C17: the repair node is entered only with repair_count < 2; it counts the
\* attempt, repair_count exactly one higher, in the step that issues the backend
\* call, before the reply; no other step changes repair_count, in particular
\* not the return of the call, whether it succeeded or failed.
C17_RepairConsumesBudget ==
    [][(Created /\ Created') =>
          /\ IF pc = "repair_sql"
             THEN /\ state.repair_count < 2
                  /\ StepIssuedCall("repair")
                  /\ pc' = "repair_sql_await"
                  /\ state'.repair_count = state.repair_count + 1
             ELSE state'.repair_count = state.repair_count
          /\ pc = "repair_sql_await" => StepCalledBackend("repair")]_vars

\* The one repair call of the run failed and the budget shows one attempt.
C17_Witness ==
    /\ Created
    /\ Cardinality(BackendCallsOf("repair")) = 1
    /\ \A i \in BackendCallsOf("repair") : ~hist[i].out.ok
    /\ state.repair_count = 1

\* The messages a failed repair call records.
RepairFailedMessages ==
    {Some("SQL repair failed: " \o d) : d \in {TRANSPORT_ERROR, NOT_SUBSCRIPTABLE}}

\* C18: a repair step either succeeds, and then sql_error is cleared and the
\* candidate query and explanation are those of the payload, or fails, and then
\* sql_error is the repair-failed message and the previous candidate query and
\* explanation are unchanged; a call that raised or whose payload has a null sql
\* fails.
C18_FailedRepairKeepsCandidate ==
    [][pc = "repair_sql_await" =>
          /\ StepCalledBackend("repair")
          /\ IF CallOfStep.out.ok /\ CallOfStep.out.payload.sql # JsonNull
             THEN /\ IsNone(state'.sql_error)
                  /\ state'.deepseek_sql = DictGet(CallOfStep.out.payload.sql, <<>>)
                  /\ state'.sql_explanation = DictGet(CallOfStep.out.payload.explanation, "")
             ELSE /\ state'.sql_error \in RepairFailedMessages
                  /\ state'.deepseek_sql = state.deepseek_sql
                  /\ state'.sql_explanation = state.sql_explanation]_vars

\* C19: when sql_error is set on entry to the answer node, the node runs to its
\* end without a backend call and sets final_answer to "Error: " followed by
\* sql_error; when sql_error is absent the node issues the answer call, and the
\* answer call is pending only with sql_error absent.
C19_ErrorSkipsAnswerBackend ==
    [][/\ pc = "generate_answer" =>
             IF Truthy(state.sql_error)
             THEN /\ hist' = hist \o <<NodeEvent("generate_answer")>>
                  /\ pc' = "output"
                  /\ state'.final_answer = Some("Error: " \o state.sql_error[1])
                  /\ state'.sql_error = state.sql_error
             ELSE /\ IsNone(state.sql_error)
                  /\ StepIssuedCall("answer")
                  /\ pc' = "generate_answer_await"
       /\ pc = "generate_answer_await" =>
             /\ IsNone(state.sql_error)
             /\ StepCalledBackend("answer")]_vars

\* The answer node ran with a validation error on record.
C19_Witness ==
    /\ Visited("generate_answer")
    /\ state.sql_error = Some("LIMIT value 5000 exceeds maximum of 1000")
    /\ state.final_answer = Some("Error: LIMIT value 5000 exceeds maximum of 1000")
    /\ BackendCallsOf("answer") = {}

\* C20: when the answer backend call raises, the answer node returns normally,
\* sql_error stays absent, and final_answer is "Query executed successfully and
\* returned {n} rows. Columns: {list}" for n > 0 result rows, and the no-results
\* message with the failure detail otherwise.
C20_AnswerFallback ==
    [][(pc = "generate_answer_await" /\ StepCalledBackend("answer") /\ ~CallOfStep.out.ok) =>
          /\ pc' = "output"
          /\ IsNone(state'.sql_error)
          /\ state'.result_rows = state.result_rows
          /\ state'.final_answer =
                IF Len(state.result_rows) > 0
                THEN Some("Query executed successfully and returned "
                          \o ToString(Len(state.result_rows))
                          \o " rows. Columns: complaint_type, cnt")
                ELSE Some("Query executed but returned no results. Error generating answer: "
                          \o CallOfStep.out.detail)]_vars

\* The answer call failed after a query that returned one row.
C20_Witness ==
    /\ \E i \in BackendCallsOf("answer") : ~hist[i].out.ok
    /\ Len(state.result_rows) = 1
    /\ state.final_answer =
          Some("Query executed successfully and returned 1 rows. Columns: complaint_type, cnt")

----------------------------------------------------------------------------
(* C21 - C30.                                                              *)

\* C21: final_answer is absent until the answer node runs, only a step of the
\* answer node writes it, writing it once, and every run that got its schema
\* ends with final_answer written.
C21_FinalAnswerWrittenOnce ==
    /\ []((Created /\ ~Visited("generate_answer")) => IsNone(state.final_answer))
    /\ [][(Created /\ Created' /\ state'.final_answer # state.final_answer) =>
             (pc \in {"generate_answer", "generate_answer_await"} /\ IsNone(state.final_answer))]_vars
    /\ []((RequestOver /\ SchemaObtained) =>
             (Visited("generate_answer") /\ ~IsNone(state.final_answer)))

\* The names of the nodes entered so far, in order.
NodeEvents == SelectSeq(hist, LAMBDA e : e.ev = "node")

NodesVisited == [i \in DOMAIN NodeEvents |-> NodeEvents[i].name]

\* The node sequence of a complete run with k repair rounds, with or without
\* execution.
RECURSIVE RepairRounds(_)
RepairRounds(k) ==
    IF k = 0 THEN <<>> ELSE <<"repair_sql", "validate_sql">> \o RepairRounds(k - 1)

CompleteRun(k, executed) ==
    <<"input", "generate_sql", "validate_sql">> \o RepairRounds(k)
    \o (IF executed THEN <<"execute_sql">> ELSE <<>>)
    \o <<"generate_answer", "output">>

\* C22: the nodes visited by a run that got its schema are input, generate_sql,
\* validate_sql, zero to two rounds of (repair_sql, validate_sql), optionally
\* execute_sql, then generate_answer and output.
C22_NodeSequence ==
    (RequestOver /\ SchemaObtained) =>
        \E k \in 0..2 : \E executed \in BOOLEAN : NodesVisited = CompleteRun(k, executed)

\* The most recent backend call.
LastBackendCall == hist[CHOOSE i \in BackendCalls : \A j \in BackendCalls : j <= i]

\* C23: a repair call is issued only after a failed validation of the output
\* of a successful call: on entry to the repair node the most recent backend
\* call (generation or repair) returned a candidate, it did not fail.
C23_FailedCallNotRetried ==
    pc = "repair_sql" =>
        /\ BackendCalls # {}
        /\ LastBackendCall.out.ok
        /\ LastBackendCall.out.payload.sql # JsonNull

\* The errors a failed generation or repair call records.
CallFailureMessages ==
    {Some(prefix \o d) : prefix \in {"SQL generation failed: ", "SQL repair failed: "},
                         d \in {TRANSPORT_ERROR, NOT_SUBSCRIPTABLE, BAD_FORMAT}}

\* C24: every validation pass clears sql_error and validated_sql first, so after
\* it neither holds a value from before the pass (an error of a failed call, a
\* validated query together with an error); validated_sql is written only by a
\* validation pass; a successful execution leaves sql_error absent.
C24_ValidationClearsFirst ==
    [][(Created /\ Created') =>
          /\ pc = "validate_sql" =>
                /\ state'.sql_error \notin CallFailureMessages
                /\ ~IsNone(state'.validated_sql) => IsNone(state'.sql_error)
          /\ state'.validated_sql # state.validated_sql => pc = "validate_sql"
          /\ (pc = "execute_sql" /\ hist'[Len(hist')].ev = "run_query" /\ hist'[Len(hist')].out.ok)
                => IsNone(state'.sql_error)]_vars

\* C25: a validation pass writes only validated_sql and sql_error, and the
\* candidate query is written only by the generation and repair nodes.
C25_ValidationFrame ==
    [][(Created /\ Created') =>
          /\ pc = "validate_sql" =>
                [state' EXCEPT !.validated_sql = None, !.sql_error = None]
                    = [state EXCEPT !.validated_sql = None, !.sql_error = None]
          /\ state'.deepseek_sql # state.deepseek_sql =>
                pc \in {"generate_sql_await", "repair_sql_await"}]_vars

\* run_query returned in this run.
ExecutionSucceeded == \E i \in RunQueryCalls : hist[i].out.ok

\* C26: on entry to the answer node either run_query returned and sql_error is
\* absent, or sql_error is set and run_query did not return; never both and
\* never neither.
C26_ExactlyOneWayIntoAnswer ==
    pc = "generate_answer" =>
        \/ ExecutionSucceeded /\ IsNone(state.sql_error)
        \/ ~ExecutionSucceeded /\ Truthy(state.sql_error)

\* The answer node is entered after a failed execution.
C26_Witness ==
    /\ pc = "generate_answer"
    /\ RunQueryCalls # {}
    /\ ~ExecutionSucceeded
    /\ state.sql_error = Some("SQL execution failed: " \o EXECUTION_ERROR)

\* C29: an accepted candidate without a LIMIT clause is validated as the text
\* " LIMIT 1000" appended to it, and no ';' immediately precedes the appended
\* LIMIT, also when the candidate ends with ';' followed by whitespace.
C29_NoTerminatorBeforeLimit ==
    (Probed /\ ProbedAccepted /\ LimitValues(ProbedSql) = {}) =>
        /\ EndsWith(ProbedOut.validated_sql[1], LIMIT_SUFFIX)
        /\ ProbedOut.validated_sql[1][Len(ProbedOut.validated_sql[1]) - Len(LIMIT_SUFFIX)] # ";"

----------------------------------------------------------------------------
(* The schema cache: the module global _schema_cache under any sequence of *)
(* get_schema, clear_schema_cache and load_and_transform_csv calls made one *)
(* after the other in one process.  Here probe holds the cache, state the   *)
(* table (absent, or its number of rows) and hist the get_schema,           *)
(* clear_schema_cache and load_and_transform_csv calls made.                *)

\* Calls made in one sequence: at most MaxCacheOps.
MaxCacheOps == 5

\* Row counts the table may have: 1..MaxTableRows.
MaxTableRows == 3

\* What _introspect_schema returns for a table of n rows.
IntrospectedSchema(n) == [Schema EXCEPT !.total_rows = n]

\* Outcomes of _introspect_schema on a table of n rows: the schema, or a raise.
IntrospectOutcomes(n) ==
    {[ok |-> TRUE, detail |-> "", value |-> Some(IntrospectedSchema(n))],
     [ok |-> FALSE, detail |-> SCHEMA_ERROR, value |-> None]}

\* The message of the ValueError raised at schema_cache.py:81-84.
TABLE_MISSING ==
    "Table 'nyc_311' does not exist in database.\nPlease run the ETL script first: python -m backend.etl data/your_file.csv"

\* The table nyc_311: absent, or present with a number of rows.
NoTable == None

TableOf(n) == Some(n)

Tables == {NoTable} \cup {TableOf(n) : n \in 1..MaxTableRows}

\* Outcomes of _introspect_schema on the table as it is: with no table every
\* metadata query fails and the function raises.
IntrospectTable(table) ==
    IF table = NoTable
    THEN {[ok |-> FALSE, detail |-> TABLE_MISSING, value |-> None],
          [ok |-> FALSE, detail |-> SCHEMA_ERROR, value |-> None]}
    ELSE IntrospectOutcomes(table[1])

\* How far a call of load_and_transform_csv gets: it raises before the DROP
\* (line 31, the path does not exist), at the read of the file (line 51), at
\* the CREATE of the table (line 199), at the statements after it (line 211),
\* or returns; from the CREATE on, the table it made has the given rows.
LoadOutcomes ==
    {[raised_at |-> l, rows |-> 0] : l \in {"line_31", "line_51", "line_199"}}
        \cup {[raised_at |-> l, rows |-> n] : l \in {"line_211", ""}, n \in 1..MaxTableRows}

\* load_and_transform_csv on the table and the global as they are: the table
\* and the global it leaves, whether it returned and whether it called
\* clear_schema_cache.  The DROP at line 37 removes the table, the CREATE at
\* line 199 makes the new one, and clear_schema_cache is called at line 288
\* only, inside the try: a raise before it leaves the global as it was.
load_and_transform_csv(table, cache, outcome) ==
    [table |-> IF outcome.raised_at = "line_31" THEN table
               ELSE IF outcome.raised_at \in {"line_51", "line_199"} THEN NoTable
               ELSE TableOf(outcome.rows),
     cache |-> IF outcome.raised_at = "" THEN None ELSE cache,
     ok |-> outcome.raised_at = "",
     raised_at |-> outcome.raised_at,
     cleared |-> outcome.raised_at = ""]

\* Mutant of get_schema: the cache is ignored, every call introspects.
get_schema_AlwaysIntrospects(cache, introspection) ==
    IF introspection.ok
    THEN [cache |-> introspection.value, ok |-> TRUE, value |-> introspection.value,
          introspected |-> TRUE]
    ELSE [cache |-> cache, ok |-> FALSE, value |-> None, introspected |-> TRUE]

\* Mutant of get_schema: a failing introspection still raises, but leaves a
\* schema without columns in the global.
get_schema_CachesFailure(cache, introspection) ==
    IF IsNone(cache)
    THEN IF introspection.ok
         THEN [cache |-> introspection.value, ok |-> TRUE, value |-> introspection.value,
               introspected |-> TRUE]
         ELSE [cache |-> Some([Schema EXCEPT !.columns = <<>>]), ok |-> FALSE, value |-> None,
               introspected |-> TRUE]
    ELSE [cache |-> cache, ok |-> TRUE, value |-> cache, introspected |-> FALSE]

\* get_schema with the global holding cache: the global it leaves, whether it
\* returned, the value returned and whether _introspect_schema was called.  The
\* global is assigned only when _introspect_schema returns.
get_schema(cache, introspection) ==
    IF IsNone(cache)
    THEN IF introspection.ok
         THEN [cache |-> introspection.value, ok |-> TRUE, value |-> introspection.value,
               introspected |-> TRUE]
         ELSE [cache |-> cache, ok |-> FALSE, value |-> None, introspected |-> TRUE]
    ELSE [cache |-> cache, ok |-> TRUE, value |-> cache, introspected |-> FALSE]

\* clear_schema_cache: the global it leaves.
clear_schema_cache(cache) == None

\* What get_schema is given when it does not call _introspect_schema.
NotIntrospected == [ok |-> FALSE, detail |-> "", value |-> None]

CacheEvent(name, out) == [ev |-> name, name |-> name, arg |-> <<>>, out |-> out]

InitSchemaCache ==
    /\ pc = "cache_ops"
    /\ state \in Tables
    /\ hist = <<>>
    /\ result = None
    /\ chat = "pending"
    /\ probe = [cache |-> None]

\* A call of get_schema: _introspect_schema is called, and reads the table,
\* only when the global is None; with the global filled the call returns it
\* whatever the table is.
GetSchema ==
    /\ pc = "cache_ops"
    /\ Len(hist) < MaxCacheOps
    /\ \E introspection \in (IF IsNone(probe.cache) THEN IntrospectTable(state)
                                                    ELSE {NotIntrospected}) :
          \E r \in {get_schema(probe.cache, introspection)} :
             /\ probe' = [probe EXCEPT !.cache = r.cache]
             /\ hist' = Append(hist, CacheEvent("get_schema", r))
    /\ UNCHANGED <<pc, state, result, chat>>

ClearSchemaCache ==
    /\ pc = "cache_ops"
    /\ Len(hist) < MaxCacheOps
    /\ probe' = [probe EXCEPT !.cache = clear_schema_cache(probe.cache)]
    /\ hist' = Append(hist, CacheEvent("clear_schema_cache", [ok |-> TRUE]))
    /\ UNCHANGED <<pc, state, result, chat>>

\* A call of load_and_transform_csv, whole: the call of clear_schema_cache it
\* makes when it gets to line 288 is recorded before its own return or raise.
LoadAndTransformCsv ==
    /\ pc = "cache_ops"
    /\ Len(hist) + 1 < MaxCacheOps
    /\ \E outcome \in LoadOutcomes :
          \E r \in {load_and_transform_csv(state, probe.cache, outcome)} :
             /\ state' = r.table
             /\ probe' = [probe EXCEPT !.cache = r.cache]
             /\ hist' = (IF r.cleared
                         THEN Append(hist, CacheEvent("clear_schema_cache", [ok |-> TRUE]))
                         ELSE hist)
                            \o <<CacheEvent("load_and_transform_csv",
                                     [ok |-> r.ok, raised_at |-> r.raised_at, table |-> r.table])>>
    /\ UNCHANGED <<pc, result, chat>>

NextSchemaCache == GetSchema \/ ClearSchemaCache \/ LoadAndTransformCsv

SpecSchemaCache == InitSchemaCache /\ [][NextSchemaCache]_vars

\* The get_schema calls that returned before call i with no clear_schema_cache
\* between them and call i.
FillersOf(i) ==
    {j \in 1..(i - 1) :
        /\ hist[j].ev = "get_schema"
        /\ hist[j].out.ok
        /\ \A k \in (j + 1)..(i - 1) : hist[k].ev # "clear_schema_cache"}

\* C28: in any sequence of get_schema and clear_schema_cache calls, a get_schema
\* call introspects exactly when no earlier get_schema has returned since the
\* start or since the last clear_schema_cache; otherwise it returns the value
\* the filling call returned, without introspecting.
C28_LazyCache ==
    pc = "cache_ops" =>
        \A i \in DOMAIN hist :
            hist[i].ev = "get_schema" =>
                /\ hist[i].out.introspected <=> FillersOf(i) = {}
                /\ \A j \in FillersOf(i) :
                      hist[i].out.ok /\ hist[i].out.value = hist[j].out.value

\* A cached value was returned without introspecting, and after the
\* clear_schema_cache of a reload the next call introspected the new table.
C28_Witness ==
    /\ pc = "cache_ops"
    /\ Len(hist) = 5
    /\ hist[1].ev = "get_schema" /\ hist[1].out.ok /\ hist[1].out.introspected
    /\ hist[2].ev = "get_schema" /\ ~hist[2].out.introspected
    /\ hist[2].out.value = hist[1].out.value
    /\ hist[3].ev = "clear_schema_cache"
    /\ hist[4].ev = "load_and_transform_csv" /\ hist[4].out.ok
    /\ hist[5].ev = "get_schema" /\ hist[5].out.introspected /\ hist[5].out.ok
    /\ hist[5].out.value # hist[1].out.value

----------------------------------------------------------------------------
(* call_deepseek_json from the content of the assistant message on: fence  *)
(* stripping and json.loads.  The JSON read here is an object whose values *)
(* are strings without escapes, integers or null, or one such value alone. *)

\* The character U+0060, which a string literal of TLA+ cannot hold.
BackTick == "U+0060"

FENCE == <<BackTick, BackTick, BackTick>>

FENCE_JSON == <<BackTick, BackTick, BackTick, "j", "s", "o", "n">>

\* s ends with the text p.
EndsWithText(s, p) == Len(s) >= Len(p) /\ Slice(s, Len(s) - Len(p) + 1, Len(s)) = p

\* s without its first n characters / without its last n characters.
DropFirst(s, n) == Slice(s, n + 1, Len(s))

DropLast(s, n) == Slice(s, 1, Len(s) - n)

\* if content.startswith("```json"): content = content[7:]
StripJsonFence(content) ==
    IF StartsWith(content, FENCE_JSON) THEN DropFirst(content, 7) ELSE content

\* if content.startswith("```"): content = content[3:]
StripOpeningFence(content) ==
    IF StartsWith(content, FENCE) THEN DropFirst(content, 3) ELSE content

\* if content.endswith("```"): content = content[:-3]
StripClosingFence(content) ==
    IF EndsWithText(content, FENCE) THEN DropLast(content, 3) ELSE content

\* Lines 66-73: strip, the three fence removals, strip.
StripFences(content) ==
    Strip(StripClosingFence(StripOpeningFence(StripJsonFence(Strip(content)))))

\* The whitespace json.loads skips.
JsonSpace == {" ", "\t", "\n", "\r"}

JsonFail == [ok |-> FALSE, value |-> <<>>, next |-> 0]

JsonOk(v, next) == [ok |-> TRUE, value |-> v, next |-> next]

\* The first position at or after i that holds no JSON whitespace.
SkipSpace(s, i) == IF i > Len(s) THEN i ELSE RunEnd(s, i, JsonSpace) + 1

\* The characters a string without escapes may hold.
PlainStringChars == WordChars \cup {" ", "*", ",", ":", "{", "}", ";", "(", ")", "'", "."}

\* A string at position i: its text, and the position after the closing quote.
ParseJsonString(s, i, e) ==
    IF i \in DOMAIN s /\ s[i] = "\"" /\ (e + 1) \in DOMAIN s /\ s[e + 1] = "\""
    THEN JsonOk(Some(Str(Slice(s, i + 1, e))), e + 2) ELSE JsonFail

\* An integer at position i, e the end of its run of digits: no leading zero,
\* no fraction or exponent after it.
ParseJsonInt(s, i, e) ==
    IF e < i \/ (s[i] = "0" /\ e > i) THEN JsonFail
    ELSE IF (e + 1) \in DOMAIN s /\ s[e + 1] \in (WordChars \cup {"."}) THEN JsonFail
    ELSE JsonOk(Some(ParseInt(Slice(s, i, e))), e + 1)

\* A value that is not an object, at position i.
ParseJsonScalar(s, i) ==
    IF i \notin DOMAIN s THEN JsonFail
    ELSE IF s[i] = "\"" THEN ParseJsonString(s, i, RunEnd(s, i + 1, PlainStringChars))
    ELSE IF LiteralAt(s, i, <<"n", "u", "l", "l">>) THEN JsonOk(None, i + 4)
    ELSE ParseJsonInt(s, i, RunEnd(s, i, DigitChars))

\* The dict of a sequence of <<key, value>> members: a repeated key keeps its
\* last value.
DictOf(members) ==
    [k \in {members[n][1] : n \in DOMAIN members} |->
        members[CHOOSE n \in DOMAIN members :
                   members[n][1] = k /\ \A m \in DOMAIN members : members[m][1] = k => m <= n][2]]

\* The members of an object from the key at position i on, acc the members read.
RECURSIVE ParseJsonMembers(_, _, _)
RECURSIVE AfterJsonKey(_, _, _, _)
RECURSIVE AfterJsonValue(_, _, _, _)
AfterJsonValue(s, d, acc, v) ==
    IF d \notin DOMAIN s THEN JsonFail
    ELSE IF s[d] = "," THEN ParseJsonMembers(s, SkipSpace(s, d + 1), acc)
    ELSE IF s[d] = "}" THEN JsonOk(DictOf(acc), d + 1)
    ELSE JsonFail

AfterJsonKey(s, c, acc, k) ==
    IF ~(c \in DOMAIN s /\ s[c] = ":") THEN JsonFail
    ELSE \* the value, then "," or "}"
         LET v == ParseJsonScalar(s, SkipSpace(s, c + 1))
         IN  IF ~v.ok THEN JsonFail
             ELSE AfterJsonValue(s, SkipSpace(s, v.next), Append(acc, <<k.value[1], v.value>>), v)

ParseJsonMembers(s, i, acc) ==
    IF ~(i \in DOMAIN s /\ s[i] = "\"") THEN JsonFail
    ELSE LET k == ParseJsonString(s, i, RunEnd(s, i + 1, PlainStringChars))
         IN  IF ~k.ok THEN JsonFail ELSE AfterJsonKey(s, SkipSpace(s, k.next), acc, k)

\* An object at position i (s[i] is the opening brace).
ParseJsonObject(s, i, j) ==
    IF j \in DOMAIN s /\ s[j] = "}" THEN JsonOk(<<>>, j + 1)
    ELSE ParseJsonMembers(s, j, <<>>)

\* The value at position i together with whether it is an object.
ParseJsonValue(s, i) ==
    IF i \in DOMAIN s /\ s[i] = "{"
    THEN [isObject |-> TRUE, parsed |-> ParseJsonObject(s, i, SkipSpace(s, i + 1))]
    ELSE [isObject |-> FALSE, parsed |-> ParseJsonScalar(s, i)]

\* json.loads(content) followed by parsed_result.keys(): the dict, or the
\* exception (JSONDecodeError for text that is not one JSON value, AttributeError
\* for a value that is not an object).
LoadsResult(s, v) ==
    IF ~v.parsed.ok \/ SkipSpace(s, v.parsed.next) # Len(s) + 1
    THEN [raised |-> TRUE, exc |-> "JSONDecodeError", value |-> <<>>]
    ELSE IF ~v.isObject
    THEN [raised |-> TRUE, exc |-> "AttributeError", value |-> <<>>]
    ELSE [raised |-> FALSE, exc |-> "", value |-> v.parsed.value]

JsonLoads(s) == LoadsResult(s, ParseJsonValue(s, SkipSpace(s, 1)))

\* call_deepseek_json on the content of the assistant message.
ParseContent(content) == JsonLoads(StripFences(content))

\* The bodies of the responses probed: JSON objects, and texts that are not.
ResponseBodies ==
    {<<"{","\"","s","q","l","\"",":"," ","\"","S","E","L","E","C","T"," ","1","\"",","," ","\"","c","o","n","f","i","d","e","n","c","e","\"",":"," ","9","0","}">>,    \* "{"sql": "SELECT 1", "confidence": 90}"
     <<"{","\"","a","n","s","w","e","r","\"",":"," ","\"","o","k","\"","}">>,    \* "{"answer": "ok"}"
     <<"{","}">>,    \* "{}"
     <<"{"," ","\"","s","q","l","\""," ",":"," ","n","u","l","l"," ","}">>,    \* "{ "sql" : null }"
     <<"{","\"","s","q","l","\"",":"," ","}">>,    \* "{"sql": }"
     <<"{","\"","a","\"",":"," ","1",",","}">>,    \* "{"a": 1,}"
     <<"S","E","L","E","C","T"," ","1">>,    \* "SELECT 1"
     <<"\"","o","k","\"">>,    \* ""ok""
     <<>>}    \* ""

\* What precedes the body: nothing, or an opening fence with or without a tag.
OpeningFences ==
    {<<>>,    \* ""
     <<BackTick,BackTick,BackTick,"j","s","o","n","\n">>,    \* "```json\n"
     <<BackTick,BackTick,BackTick,"j","s","o","n">>,    \* "```json"
     <<BackTick,BackTick,BackTick,"\n">>,    \* "```\n"
     <<BackTick,BackTick,BackTick>>,    \* "```"
     <<BackTick,BackTick,BackTick,"J","S","O","N","\n">>,    \* "```JSON\n"
     <<BackTick,BackTick,BackTick,"s","q","l","\n">>}    \* "```sql\n"

\* What follows the body.
ClosingFences ==
    {<<>>,    \* ""
     <<"\n",BackTick,BackTick,BackTick>>,    \* "\n```"
     <<BackTick,BackTick,BackTick>>}    \* "```"

\* The whitespace around the response.
Paddings ==
    {<<>>,    \* ""
     <<" ","\n">>}    \* " \n"

\* The content of a response made of the five parts.
ContentOf(r) == r.lead \o r.open \o r.body \o r.close \o r.trail

ResponsesProbed ==
    [lead : Paddings, open : OpeningFences, body : ResponseBodies, close : ClosingFences,
     trail : Paddings]

InitFence ==
    /\ pc = "probe_content"
    /\ state = NoContext
    /\ hist = <<>>
    /\ result = None
    /\ chat = "pending"
    /\ probe \in {[in |-> r, out |-> None] : r \in ResponsesProbed}

CallDeepseekJson ==
    /\ pc = "probe_content"
    /\ probe' = [probe EXCEPT !.out = Some(ParseContent(ContentOf(probe.in)))]
    /\ pc' = "probed_content"
    /\ UNCHANGED <<state, hist, result, chat>>

NextFence == CallDeepseekJson

SpecFence == InitFence /\ [][NextFence]_vars

\* The response probed is a body wrapped in a fenced code block.
FencedResponse == probe.in.open # <<>> /\ probe.in.close # <<>>

\* C30: a JSON body wrapped in a fenced code block, the opening fence with or
\* without a language tag, is parsed to the value of the body alone, and a
\* response whose content is not valid JSON once the fences are stripped raises.
C30_FenceTolerated ==
    pc = "probed_content" =>
        /\ (FencedResponse /\ ~JsonLoads(probe.in.body).raised) =>
              /\ ~probe.out[1].raised
              /\ probe.out[1].value = JsonLoads(probe.in.body).value
        /\ (FencedResponse /\ JsonLoads(probe.in.body).raised) => probe.out[1].raised

----------------------------------------------------------------------------
(* Concurrent requests: NumRuns calls of run_agent on one event loop, their *)
(* node executions interleaved.  Here pc, state, hist and result are        *)
(* indexed by run, and probe holds the module globals _schema_cache and     *)
(* _graph, which the runs share.                                            *)

\* Runs in flight: 1..NumRuns.
NumRuns == 2

Runs == 1..NumRuns

\* The question of each run.
QuestionOf(r) == IF r = 1 THEN Question ELSE "Which complaint type is most common?"

\* Mutant of RecordOf: the context dict is one module-level dict that every
\* run fills and passes to the graph.
RecordOf_Shared(r) == 1

\* The context dict run r passes to graph.ainvoke: the dict its own call of
\* run_agent created.
RecordOf(r) == r

\* build_graph().
COMPILED_GRAPH == "CompiledStateGraph"

\* get_graph with the global holding g: the global it leaves.
get_graph(g) == IF IsNone(g) THEN Some(COMPILED_GRAPH) ELSE g

\* Outcomes of the calls in a concurrent run: a generation that is accepted, one
\* that needs a repair and one that fails, a repair that is accepted, a query
\* that returns a row and one that fails, an answer.
ConcGenResponses ==
    {BackendOk(Payload(JsonValue(q), JsonValue("explained"), JsonValue(90), Missing)) :
        q \in {Q_NO_LIMIT, Q_DROP}}
    \cup {BackendFailed(TRANSPORT_ERROR)}

ConcRepairResponses ==
    {BackendOk(Payload(JsonValue(Q_LIMIT_10), JsonValue("repaired"), Missing, Missing))}

ConcQueryOutcomes == {QueryOk(1), QueryFailed(EXECUTION_ERROR)}

ConcAnswerResponses ==
    {BackendOk(Payload(Missing, Missing, Missing, JsonValue("There are 3 complaints.")))}

\* What the node at pc value p may do on the dict s: the result of the node and
\* the node its edge leads to.
NodeChoice(res, next) == [res |-> res, next |-> next]

ValidateChoice(v) == NodeChoice(v, EdgeAfterValidate(should_repair(v.st)))

\* Whether the node at pc value p, entered with the dict s, reaches its
\* "await call_deepseek_json(...)".
NodeAwaits(p, s) ==
    CASE p = "generate_sql"    -> TRUE
      [] p = "repair_sql"      -> RepairCallsBackend(s)
      [] p = "generate_answer" -> AnswerCallsBackend(s)
      [] OTHER                 -> FALSE

\* The dict the node holds while it is suspended, and the call it is waiting for.
SuspendedDict(p, s) == IF p = "repair_sql" THEN sql_repair_node_until_await(s) ELSE s

PendingCall(p, s) ==
    CASE p = "generate_sql"    -> AwaitEvent("generate", s.user_question)
      [] p = "repair_sql"      -> AwaitEvent("repair", <<s.deepseek_sql, s.sql_error>>)
      [] p = "generate_answer" -> AwaitEvent("answer", s.validated_sql)

\* What a node that does not reach an await may do.
NodeChoices(p, s) ==
    CASE p = "input" -> {NodeChoice(input_node(s), "generate_sql")}
      [] p = "validate_sql" -> {ValidateChoice(sql_validation_node(s))}
      [] p = "repair_sql" ->
            {NodeChoice(sql_repair_node(s, NoCall), should_retry_validation(s) \o "_sql")}
      [] p = "execute_sql" ->
            {NodeChoice(sql_execution_node(s, outcome), "generate_answer") :
                outcome \in (IF ExecutionCallsRunQuery(s) THEN ConcQueryOutcomes ELSE {NoQuery})}
      [] p = "generate_answer" -> {NodeChoice(answer_generation_node(s, NoCall), "output")}
      [] p = "output" -> {NodeChoice(output_node(s), "END")}

\* What a suspended node may do when the reply arrives, on the dict s it finds.
ResumeChoices(p, s) ==
    CASE p = "generate_sql_await" ->
            {NodeChoice(sql_generation_node(s, resp), "validate_sql") : resp \in ConcGenResponses}
      [] p = "repair_sql_await" ->
            {NodeChoice(sql_repair_node_from_await(s, resp), should_retry_validation(s) \o "_sql") :
                resp \in ConcRepairResponses}
      [] p = "generate_answer_await" ->
            {NodeChoice(answer_generation_node_from_await(s, resp), "output") :
                resp \in ConcAnswerResponses}

AwaitPcs == {"generate_sql_await", "repair_sql_await", "generate_answer_await"}

\* The node a suspended run is in.
NodeOfAwait(p) ==
    CASE p = "generate_sql_await"    -> "generate_sql"
      [] p = "repair_sql_await"      -> "repair_sql"
      [] p = "generate_answer_await" -> "generate_answer"

NodePcs == {"input", "generate_sql", "validate_sql", "repair_sql", "execute_sql",
            "generate_answer", "output"}

InitConcurrent ==
    /\ pc = [r \in Runs |-> "start"]
    /\ state = [r \in Runs |-> NoContext]
    /\ hist = [r \in Runs |-> <<>>]
    /\ result = [r \in Runs |-> None]
    /\ chat = "pending"
    /\ probe = [schema_cache |-> None, graph |-> None]

\* run_agent of run r up to graph.ainvoke: get_schema, the context dict,
\* get_graph.
ConcRunAgentStart(r) ==
    /\ pc[r] = "start"
    /\ \E introspection \in IntrospectOutcomes(Schema.total_rows) :
          \E g \in {get_schema(probe.schema_cache, introspection)} :
             /\ g.introspected \/ introspection.ok
             /\ hist' = [hist EXCEPT ![r] = Append(@, CacheEvent("get_schema", g))]
             /\ IF g.ok
                THEN /\ state' = [state EXCEPT ![RecordOf(r)] = NewContext(QuestionOf(r), g.value[1])]
                     /\ probe' = [schema_cache |-> g.cache, graph |-> get_graph(probe.graph)]
                     /\ pc' = [pc EXCEPT ![r] = "input"]
                ELSE /\ state' = state
                     /\ probe' = [probe EXCEPT !.schema_cache = g.cache]
                     /\ pc' = [pc EXCEPT ![r] = "run_agent_raised"]
    /\ UNCHANGED <<result, chat>>

\* One node of run r runs on the dict of run r, up to its await when it has
\* one: the run is then suspended and the event loop resumes any run.
ConcNodeStep(r) ==
    /\ pc[r] \in NodePcs
    /\ IF NodeAwaits(pc[r], state[RecordOf(r)])
       THEN /\ state' = [state EXCEPT ![RecordOf(r)] = SuspendedDict(pc[r], @)]
            /\ hist' = [hist EXCEPT ![r] =
                           @ \o <<NodeEvent(pc[r]), PendingCall(pc[r], state[RecordOf(r)])>>]
            /\ pc' = [pc EXCEPT ![r] = @ \o "_await"]
       ELSE \E c \in NodeChoices(pc[r], state[RecordOf(r)]) :
               /\ state' = [state EXCEPT ![RecordOf(r)] = c.res.st]
               /\ hist' = [hist EXCEPT ![r] =
                              @ \o <<NodeEvent(pc[r])>> \o c.res.calls
                                \o (IF c.res.raised THEN <<RaiseEvent(pc[r], c.res.exc)>> ELSE <<>>)]
               /\ pc' = [pc EXCEPT ![r] = IF c.res.raised THEN "ainvoke_raised" ELSE c.next]
    /\ UNCHANGED <<result, chat, probe>>

\* The reply to the call of run r arrived: its node runs from the await to its
\* end on the dict of run r as it is now.
ConcNodeResume(r) ==
    /\ pc[r] \in AwaitPcs
    /\ \E c \in ResumeChoices(pc[r], state[RecordOf(r)]) :
          /\ state' = [state EXCEPT ![RecordOf(r)] = c.res.st]
          /\ hist' = [hist EXCEPT ![r] =
                         SubSeq(@, 1, Len(@) - 1)
                           \o <<BackendCall(@[Len(@)].name, @[Len(@)].arg, c.res.calls[1].out)>>
                           \o (IF c.res.raised
                               THEN <<RaiseEvent(NodeOfAwait(pc[r]), c.res.exc)>> ELSE <<>>)]
          /\ pc' = [pc EXCEPT ![r] = IF c.res.raised THEN "ainvoke_raised" ELSE c.next]
    /\ UNCHANGED <<result, chat, probe>>

\* run_agent of run r after graph.ainvoke.
ConcRunAgentReturn(r) ==
    /\ pc[r] \in {"END", "ainvoke_raised"}
    /\ result' = [result EXCEPT ![r] =
                     IF pc[r] = "END" THEN Some(AgentResult(state[RecordOf(r)]))
                     ELSE Some(AgentFailure(hist[r][Len(hist[r])].out))]
    /\ pc' = [pc EXCEPT ![r] = "returned"]
    /\ UNCHANGED <<state, hist, chat, probe>>

NextConcurrent ==
    \E r \in Runs :
        ConcRunAgentStart(r) \/ ConcNodeStep(r) \/ ConcNodeResume(r) \/ ConcRunAgentReturn(r)

SpecConcurrent == InitConcurrent /\ [][NextConcurrent]_vars

\* The node name applied to the dict s with the outcome out of its call.
NodeApplied(name, s, out) ==
    CASE name = "input" -> input_node(s)
      [] name = "generate_sql" -> sql_generation_node(s, out)
      [] name = "validate_sql" -> sql_validation_node(s)
      [] name = "repair_sql" -> sql_repair_node(s, out)
      [] name = "execute_sql" -> sql_execution_node(s, out)
      [] name = "generate_answer" -> answer_generation_node(s, out)
      [] name = "output" -> output_node(s)

\* The outcome recorded for the node entered at position i of the history h.
OutcomeAt(h, i) ==
    IF i + 1 <= Len(h) /\ h[i + 1].ev \in {"backend", "run_query"} THEN h[i + 1].out ELSE NoCall

\* The dict a run alone ends with when it starts from s and its nodes, from
\* position i of h on, get the outcomes recorded in h.
RECURSIVE SoloReplay(_, _, _)
SoloReplay(h, i, s) ==
    IF i > Len(h) THEN s
    ELSE IF h[i].ev # "node" THEN SoloReplay(h, i + 1, s)
    ELSE SoloReplay(h, i + 1, NodeApplied(h[i].name, s, OutcomeAt(h, i)).st)

\* The result of run r alone under the outcomes of its history h.
SoloResult(r, h) ==
    IF h[Len(h)].ev = "raise" THEN AgentFailure(h[Len(h)].out)
    ELSE AgentResult(SoloReplay(h, 2, NewContext(QuestionOf(r), h[1].out.value[1])))

\* C27: with the runs interleaved at their backend-call suspension points, the
\* result of every run equals the result of that run alone under the schema,
\* backend and row-store outcomes it got, whatever the other run did while it
\* was suspended; its generation call carries its own question, and the dict a
\* run is suspended with holds its own question.
C27_RunsIndependent ==
    \A r \in Runs :
        /\ ~IsNone(result[r]) => result[r][1] = SoloResult(r, hist[r])
        /\ \A i \in DOMAIN hist[r] :
              (hist[r][i].ev \in {"backend", "await"} /\ hist[r][i].name = "generate")
                 => hist[r][i].arg = QuestionOf(r)
        /\ pc[r] \in AwaitPcs => state[RecordOf(r)].user_question = QuestionOf(r)

\* Run 2 is suspended in its answer call on its own validated query, and run 1
\* has gone through a repair and returned its own result.
C27_Witness ==
    /\ pc[1] = "returned"
    /\ pc[2] = "generate_answer_await"
    /\ result[1][1].sql = Some(Q_LIMIT_10)
    /\ Len(hist[1]) > 6
    /\ state[2].validated_sql # Some(Q_LIMIT_10)
    /\ state[2].user_question = QuestionOf(2)

----------------------------------------------------------------------------
(* C31 - C37.                                                              *)

\* The step is a validation pass that returned.
ValidationReturned == pc = "validate_sql" /\ pc' # "ainvoke_raised"

\* C31: after every validation pass that returns exactly one of validated_sql
\* and sql_error is non-empty, so the pass is never followed by the default
\* branch of should_repair (neither set); the execution node is only entered
\* with a validated query and its "No validated SQL to execute" error is never
\* recorded.
C31_ExactlyOneAfterValidation ==
    /\ [][ValidationReturned =>
             /\ ~(Truthy(state'.validated_sql) <=> Truthy(state'.sql_error))
             /\ pc' = "execute_sql" => Truthy(state'.validated_sql)]_vars
    /\ [](pc = "execute_sql" => Truthy(state.validated_sql))
    /\ [](Created => state.sql_error # Some("No validated SQL to execute"))

\* A pass rejected the first candidate and a later pass accepted the repaired
\* one: the execution node is about to run.
C31_Witness ==
    /\ pc = "execute_sql"
    /\ state.repair_count = 1
    /\ Truthy(state.validated_sql)
    /\ IsNone(state.sql_error)

\* The positions of the validation passes.
ValidationPasses == {i \in DOMAIN hist : IsNodeAt(i, "validate_sql")}

\* The validation pass entered at position i accepted its candidate: the node
\* entered next is execute_sql.
AcceptedAt(i) == IsNodeAt(i, "validate_sql") /\ IsNodeAt(i + 1, "execute_sql")

\* The positions of the backend calls issued, returned or still pending.
CallsIssued == {i \in DOMAIN hist : hist[i].ev \in {"backend", "await"}}

CallsIssuedOf(name) == {i \in CallsIssued : hist[i].name = name}

\* C32: per run the repair backend calls issued number repair_count and at
\* most 2, also while a call is pending; the validation passes number at most
\* 3, the run_query calls at most 1 and all backend calls (generation, repair,
\* answer) at most 4; when a run has both a third validation pass and an answer
\* backend call, the third pass accepted.
C32_CallBudget ==
    Created =>
        /\ Cardinality(CallsIssuedOf("repair")) = state.repair_count
        /\ Cardinality(CallsIssuedOf("repair")) <= 2
        /\ Cardinality(ValidationPasses) <= 3
        /\ Cardinality(RunQueryCalls) <= 1
        /\ Cardinality(CallsIssued) <= 4
        /\ (Cardinality(ValidationPasses) = 3 /\ CallsIssuedOf("answer") # {}) =>
              \E i \in ValidationPasses :
                 /\ \A j \in ValidationPasses : j <= i
                 /\ AcceptedAt(i)

\* A run with two repairs whose third validation pass accepted: four backend
\* calls and one run_query call.
C32_Witness ==
    /\ RequestOver
    /\ Cardinality(ValidationPasses) = 3
    /\ Cardinality(BackendCalls) = 4
    /\ Cardinality(BackendCallsOf("repair")) = 2
    /\ state.repair_count = 2
    /\ Cardinality(RunQueryCalls) = 1
    /\ BackendCallsOf("answer") # {}

\* The error a repair call records when it fails by transport error.
REPAIR_TRANSPORT_FAILED == "SQL repair failed: " \o TRANSPORT_ERROR

\* The last event is a repair call that failed by transport error: the repair
\* node has just returned from its except branch.
RepairJustFailed ==
    /\ hist # <<>>
    /\ hist[Len(hist)].ev = "backend"
    /\ hist[Len(hist)].name = "repair"
    /\ ~hist[Len(hist)].out.ok

\* C33: after a repair call failed by transport error the next validation pass
\* returns, leaves the candidate as it was before the repair and sets sql_error
\* to that candidate's validation error, the error the repair was called with;
\* so the repair-failed message is in sql_error only between the repair node
\* and that pass, routing never sees it, and it is neither in final_answer nor
\* in the error or answer_text of the result.
C33_RepairFailureOverwritten ==
    /\ [][(pc = "validate_sql" /\ RepairJustFailed) =>
             /\ state.sql_error = Some(REPAIR_TRANSPORT_FAILED)
             /\ pc' \in {"repair_sql", "generate_answer"}
             /\ state'.deepseek_sql = state.deepseek_sql
             /\ state'.deepseek_sql = hist[Len(hist)].arg[1]
             /\ state'.sql_error = ValidationError(state.deepseek_sql[1])
             /\ state'.sql_error = hist[Len(hist)].arg[2]
             /\ state'.sql_error # Some(REPAIR_TRANSPORT_FAILED)]_vars
    /\ []((Created /\ state.sql_error = Some(REPAIR_TRANSPORT_FAILED))
             => (pc = "validate_sql" /\ RepairJustFailed))
    /\ [](Created => state.final_answer \notin
             {Some(REPAIR_TRANSPORT_FAILED), Some("Error: " \o REPAIR_TRANSPORT_FAILED)})
    /\ [](~IsNone(result) =>
             /\ result[1].error # Some(REPAIR_TRANSPORT_FAILED)
             /\ result[1].answer_text \notin
                   {Some(REPAIR_TRANSPORT_FAILED), Some("Error: " \o REPAIR_TRANSPORT_FAILED),
                    Some("Agent execution failed: " \o REPAIR_TRANSPORT_FAILED)})

\* Both repair calls failed by transport error and the run ended with the
\* validation error of the first candidate.
C33_Witness ==
    /\ RequestOver
    /\ Cardinality(BackendCallsOf("repair")) = 2
    /\ \A i \in BackendCallsOf("repair") : ~hist[i].out.ok
    /\ \E i \in BackendCallsOf("generate") : ProposedAt(i, Q_LIMIT_5000)
    /\ state.final_answer = Some("Error: LIMIT value 5000 exceeds maximum of 1000")
    /\ result[1].error = Some("LIMIT value 5000 exceeds maximum of 1000")

\* run_agent returned the result of a run that reached the output node.
ReturnedFromOutput == ~IsNone(result) /\ Visited("output")

\* C34: in the result of a run that reached the output node, error is non-null
\* exactly when answer_text is "Error: " followed by it, and then columns and
\* rows are empty; when error is null the answer comes from the answer node's
\* backend call, sql is the validated query run_query was called with, and
\* columns and rows are what that call returned.
C34_ResultShape ==
    ReturnedFromOutput =>
        LET r == result[1]
        IN  /\ ~IsNone(r.error) <=>
                  (Truthy(r.error) /\ r.answer_text = Some("Error: " \o r.error[1]))
            /\ ~IsNone(r.error) =>
                  /\ r.columns = <<>>
                  /\ r.rows = <<>>
                  /\ BackendCallsOf("answer") = {}
            /\ IsNone(r.error) =>
                  /\ BackendCallsOf("answer") # {}
                  /\ ~IsNone(r.answer_text)
                  /\ \E i \in RunQueryCalls :
                        /\ hist[i].out.ok
                        /\ r.sql = Some(hist[i].arg)
                        /\ r.sql = state.validated_sql
                        /\ r.columns = hist[i].out.columns
                        /\ r.rows = hist[i].out.rows

\* A result without error: the repaired query, limit-normalized, and the two
\* rows run_query returned for it.
C34_Witness ==
    /\ ReturnedFromOutput
    /\ IsNone(result[1].error)
    /\ result[1].sql = Some(NormalizedSql(Q_NO_LIMIT))
    /\ Len(result[1].rows) = 2
    /\ result[1].columns = ResultColumns
    /\ state.repair_count = 1

\* str(e) of the exception that left the node that raised.
RaisedDetail == hist[CHOOSE i \in Raises : TRUE].out

\* C35: when a node raises, run_agent does not raise: no further node runs, and
\* it returns answer_text "Agent execution failed: <detail>", sql null, columns
\* and rows empty and error <detail>, whatever the workflow record held when the
\* node raised; the /chat handler responds with that record.
C35_NodeFailureReturned ==
    Raises # {} =>
        /\ Cardinality(Raises) = 1
        /\ hist[Len(hist)].ev = "raise"
        /\ pc \in {"ainvoke_raised", "returned", "done"}
        /\ chat # "raised"
        /\ pc = "ainvoke_raised" => IsNone(result)
        /\ pc \in {"returned", "done"} =>
              /\ ~IsNone(result)
              /\ result[1].answer_text = Some("Agent execution failed: " \o RaisedDetail)
              /\ IsNone(result[1].sql)
              /\ result[1].columns = <<>>
              /\ result[1].rows = <<>>
              /\ result[1].error = Some(RaisedDetail)
        /\ pc = "done" => chat = "response"

\* Validation raised in the second pass: the record held a repair count, an
\* explanation and an error, and none of them is in the result.
C35_Witness ==
    /\ RequestOver
    /\ Raises # {}
    /\ state.repair_count = 1
    /\ Truthy(state.sql_explanation)
    /\ Truthy(state.sql_error)
    /\ result[1].error = Some(NOT_SUBSCRIPTABLE)
    /\ result[1].error # state.sql_error
    /\ result[1].answer_text = Some("Agent execution failed: " \o NOT_SUBSCRIPTABLE)

\* The positions of the get_schema calls in a sequence of cache operations.
GetSchemaCalls == {i \in DOMAIN hist : hist[i].ev = "get_schema"}

\* Call j is the get_schema call that follows call i.
NextGetSchema(i, j) ==
    /\ j \in GetSchemaCalls
    /\ i < j
    /\ \A k \in GetSchemaCalls : k <= i \/ j <= k

\* C37: a get_schema call whose introspection fails raises to its caller,
\* returns no value and leaves the cache empty; the next get_schema call
\* introspects again, and what it returns is what that introspection produced,
\* which is also what it leaves in the cache.
C37_FailedIntrospectionNotCached ==
    pc = "cache_ops" =>
        \A i \in GetSchemaCalls :
            ~hist[i].out.ok =>
                /\ hist[i].out.introspected
                /\ IsNone(hist[i].out.value)
                /\ IsNone(hist[i].out.cache)
                /\ (\A k \in (i + 1)..Len(hist) : k \notin GetSchemaCalls) => IsNone(probe.cache)
                /\ \A j \in GetSchemaCalls :
                      NextGetSchema(i, j) =>
                          /\ hist[j].out.introspected
                          /\ hist[j].out.ok =>
                                /\ hist[j].out.value \in {Some(IntrospectedSchema(n)) : n \in 1..MaxTableRows}
                                /\ hist[j].out.cache = hist[j].out.value

\* The first call failed and the second introspected and filled the cache.
C37_Witness ==
    /\ pc = "cache_ops"
    /\ Len(hist) = 2
    /\ hist[1].ev = "get_schema" /\ ~hist[1].out.ok
    /\ hist[2].ev = "get_schema" /\ hist[2].out.ok /\ hist[2].out.introspected
    /\ probe.cache = hist[2].out.value
    /\ ~IsNone(probe.cache)

----------------------------------------------------------------------------
(* get_schema statement by statement in the server process, while the     *)
(* etl command line runs load_and_transform_csv in a process of its own on *)
(* the same database file.  Each process has its own module global          *)
(* _schema_cache: the clear_schema_cache that ends a load sets the global   *)
(* of the etl process.  In the server get_schema is called from run_agent   *)
(* on the event loop, one call at a time.                                   *)
(* Here pc holds the server's position in get_schema and the loader's       *)
(* position in load_and_transform_csv, result the server's local value,     *)
(* state the table (absent, or its number of rows), probe the two globals   *)
(* and hist the calls, introspections and returns of get_schema and the end *)
(* of each load.                                                            *)
(* The origin kept with a value is the position in hist of the end of the   *)
(* introspection that produced it.                                          *)

\* The thread of the server process that runs the event loop.
Server == 1

Callers == {Server}

\* The etl process running load_and_transform_csv.
Loader == 0

\* A call or a load starts only while fewer than MaxRaceEvents events are
\* recorded; a call under way always returns or raises and a load under way
\* always ends, with its clear_schema_cache or with a raise.
MaxRaceEvents == 5

RaceEvent(name, caller, out) == [ev |-> name, name |-> name, arg |-> caller, out |-> out]

\* A caller outside get_schema.
NoLocal == [called |-> 0, value |-> None, origin |-> 0, stored |-> 0]

InitSchemaRace ==
    /\ pc = [c \in Callers \cup {Loader} |-> "idle"]
    /\ state = TableOf(1)
    /\ hist = <<>>
    /\ result = [c \in Callers |-> NoLocal]
    /\ chat = "pending"
    /\ probe = [cache |-> None, origin |-> 0, etl_cache |-> None]

\* Line 181: the call starts and tests "_schema_cache is None".
TestCache(c) ==
    /\ pc[c] = "idle"
    /\ Len(hist) < MaxRaceEvents
    /\ hist' = Append(hist, RaceEvent("get_schema_called", c, <<>>))
    /\ result' = [result EXCEPT ![c] = [NoLocal EXCEPT !.called = Len(hist) + 1]]
    /\ pc' = [pc EXCEPT ![c] = IF IsNone(probe.cache) THEN "line_183" ELSE "line_186"]
    /\ UNCHANGED <<state, chat, probe>>

\* _introspect_schema raises at the given line: get_schema raises without
\* assigning the global.
IntrospectRaise(c, line) ==
    /\ hist' = Append(hist, RaceEvent("introspected", c,
                    [ok |-> FALSE, raised_at |-> line, value |-> None]))
    /\ result' = [result EXCEPT ![c] = NoLocal]
    /\ pc' = [pc EXCEPT ![c] = "idle"]

\* _introspect_schema, lines 27-36: the connection is opened, which may raise,
\* and PRAGMA table_info is sent.  With the table present it gives the
\* columns; with the table absent it raises and line 55 is tried next.
IntrospectPragma(c) ==
    /\ pc[c] = "line_183"
    /\ \/ IntrospectRaise(c, "line_27")
       \/ /\ pc' = [pc EXCEPT ![c] = IF state = NoTable THEN "line_55" ELSE "line_154"]
          /\ UNCHANGED <<hist, result>>
    /\ UNCHANGED <<state, chat, probe>>

\* Line 55, the fallback SELECT ... LIMIT 0 on the table as it is now: it gives
\* the columns, or raises and the ValueError of lines 81-84 follows.
IntrospectFallback(c) ==
    /\ pc[c] = "line_55"
    /\ IF state = NoTable
       THEN IntrospectRaise(c, "line_81")
       ELSE /\ pc' = [pc EXCEPT ![c] = "line_154"]
            /\ UNCHANGED <<hist, result>>
    /\ UNCHANGED <<state, chat, probe>>

\* Line 154, SELECT COUNT(*) on the table as it is now, and the return of the
\* schema with that row count; with the table absent the statement raises.
IntrospectCount(c) ==
    /\ pc[c] = "line_154"
    /\ IF state = NoTable
       THEN IntrospectRaise(c, "line_154")
       ELSE /\ hist' = Append(hist, RaceEvent("introspected", c,
                          [ok |-> TRUE, raised_at |-> "",
                           value |-> Some(IntrospectedSchema(state[1]))]))
            /\ result' = [result EXCEPT ![c].value = Some(IntrospectedSchema(state[1])),
                                        ![c].origin = Len(hist) + 1]
            /\ pc' = [pc EXCEPT ![c] = "line_183_store"]
    /\ UNCHANGED <<state, chat, probe>>

\* Line 183, assignment: the server's global takes the introspected value.
StoreCache(c) ==
    /\ pc[c] = "line_183_store"
    /\ probe' = [probe EXCEPT !.cache = result[c].value, !.origin = result[c].origin]
    /\ result' = [result EXCEPT ![c].stored = Len(hist)]
    /\ pc' = [pc EXCEPT ![c] = "line_186"]
    /\ UNCHANGED <<state, hist, chat>>

\* Line 186: the call returns what the global holds now.
ReturnCache(c) ==
    /\ pc[c] = "line_186"
    /\ hist' = Append(hist, RaceEvent("get_schema_returned", c,
                    [called |-> result[c].called, stored |-> result[c].stored,
                     value |-> probe.cache, origin |-> probe.origin]))
    /\ result' = [result EXCEPT ![c] = NoLocal]
    /\ pc' = [pc EXCEPT ![c] = "idle"]
    /\ UNCHANGED <<state, chat, probe>>

\* load_and_transform_csv, lines 30-37: the path exists, the connection is
\* open and the DROP statements remove the table.  Nothing orders the
\* statements of the load and those of get_schema in the server.
RaceDrop ==
    /\ pc[Loader] = "idle"
    /\ Len(hist) < MaxRaceEvents
    /\ state' = NoTable
    /\ pc' = [pc EXCEPT ![Loader] = "line_51"]
    /\ UNCHANGED <<hist, result, chat, probe>>

\* Lines 39-198: the file is read into raw_nyc_311 and the column list of the
\* new table is built; nyc_311 is still absent.
RaceLoadCsv ==
    /\ pc[Loader] = "line_51"
    /\ pc' = [pc EXCEPT ![Loader] = "line_199"]
    /\ UNCHANGED <<state, hist, result, chat, probe>>

\* Line 199: CREATE TABLE nyc_311 with the rows of the file.
RaceCreate ==
    /\ pc[Loader] = "line_199"
    /\ \E n \in 1..MaxTableRows : state' = TableOf(n)
    /\ pc' = [pc EXCEPT ![Loader] = "line_211"]
    /\ UNCHANGED <<hist, result, chat, probe>>

\* Lines 210-288: the statements after the CREATE, which only read the table,
\* then clear_schema_cache(), which sets the global of the process it runs in,
\* and the function returns.
RaceClear ==
    /\ pc[Loader] = "line_211"
    /\ probe' = [probe EXCEPT !.etl_cache = clear_schema_cache(probe.etl_cache)]
    /\ hist' = Append(hist, RaceEvent("clear_schema_cache", Loader, <<>>))
    /\ pc' = [pc EXCEPT ![Loader] = "idle"]
    /\ UNCHANGED <<state, result, chat>>

\* A statement of the load raises after the DROP: the finally closes the
\* connection and the load ends without calling clear_schema_cache, with the
\* table as the statements before left it.
RaceRaise ==
    /\ pc[Loader] \in {"line_51", "line_199", "line_211"}
    /\ hist' = Append(hist, RaceEvent("load_raised", Loader, pc[Loader]))
    /\ pc' = [pc EXCEPT ![Loader] = "idle"]
    /\ UNCHANGED <<state, result, chat, probe>>

NextSchemaRace ==
    \/ \E c \in Callers : TestCache(c)
    \/ \E c \in Callers : IntrospectPragma(c)
    \/ \E c \in Callers : IntrospectFallback(c)
    \/ \E c \in Callers : IntrospectCount(c)
    \/ \E c \in Callers : StoreCache(c)
    \/ \E c \in Callers : ReturnCache(c)
    \/ RaceDrop
    \/ RaceLoadCsv
    \/ RaceCreate
    \/ RaceClear
    \/ RaceRaise

SpecSchemaRace == InitSchemaRace /\ [][NextSchemaRace]_vars

\* The positions of the completed clear_schema_cache calls and of the returns of
\* get_schema.
ClearsDone == {k \in DOMAIN hist : hist[k].ev = "clear_schema_cache"}

SchemaReturns == {i \in DOMAIN hist : hist[i].ev = "get_schema_returned"}

\* The clear_schema_cache at position k ran while a get_schema call was between
\* finding the cache empty and storing the introspected value.
ClearedInFlight(k) ==
    \E j \in SchemaReturns :
        /\ hist[j].out.stored > 0
        /\ hist[j].out.called < k
        /\ k <= hist[j].out.stored

\* C36: when a clear_schema_cache has run while a get_schema call was between
\* finding the cache empty and storing the introspected value, a get_schema call
\* that starts after that clear_schema_cache completed never returns a schema
\* introspected before it.
C36_NoStaleSchemaAfterClear ==
    \A i \in SchemaReturns : \A k \in ClearsDone :
        (ClearedInFlight(k) /\ k < hist[i].out.called /\ ~IsNone(hist[i].out.value))
            => hist[i].out.origin > k

====
